---- MODULE Spec2Model ----
(***************************************************************************)
(* Arrival-detection engine of BusArrival: the App controller (mode,       *)
(* destination, settings, alarm loop) and the LocationTracker component    *)
(* (position watch, snooze gate, countdown).                               *)
(*                                                                         *)
(* Modelling conventions                                                   *)
(*  - Time is Date.now() in milliseconds; the clock advances in steps of   *)
(*    TickMs.  Timer callbacks may run late, never early.                  *)
(*  - A React state change, the render it causes and the effects of that   *)
(*    render (cleanup of the previous effect instance, then the new one)   *)
(*    are one atomic step.                                                 *)
(*  - A handler can run whenever the element it is attached to is rendered.*)
(*  - Coordinates are points of the equator, measured in metres of arc     *)
(*    (lat = 0, lng = metres east of the origin): there the haversine      *)
(*    formula reduces to the absolute difference of the longitudes.        *)
(*  - JavaScript's NaN and null are the sentinels NaN and Null; every      *)
(*    comparison with NaN is false.                                        *)
(***************************************************************************)
EXTENDS Integers, Sequences, FiniteSets, TLC

\* ---------------------------------------------------------------- bounds
MaxTicks == 4          \* clock steps explored after StartTime
MaxArrivals == 2       \* arrival events counted per session
MaxIds == 2            \* ids a watch / interval registry can hand out
MaxPending == 1        \* reverse-geocoding requests in flight
MaxLookups == 2        \* AI lookups in flight
MaxAttempts == 4       \* largest maxRetries a call of retryWithBackoff is given

\* ------------------------------------------------------ program constants
AlarmRepeatMs == 1500
CountdownMs == 1000
DefaultSpeedKmH == 22
NaN == -1000000
Null == -1000001

\* the clock: half the countdown period per step, starting one period after 0
TickMs == CountdownMs \div 2
StartTime == CountdownMs

\* ------------------------------------------------------------ value sets
Modes == {"IDLE", "SEARCHING", "TRACKING", "ALARM"}

NullLocation == [name |-> "null", lat |-> 0, lng |-> 0]
\* the places a suggestion or a map click can select
Places == { [name |-> "A", lat |-> 0, lng |-> 0] }

\* longitudes (metres of arc) a position fix can report; NaN is an invalid fix
FixLngs == {0, 499, 500, 501, 1833, 1834, NaN}

SoundIds == {"pulse", "beep"}
\* mutant of TimeSlider: a range input with min="0"
TimeSliderFromZero == {0, 5, 15}
\* values of the range input: its min, the default and its max in time mode
\* (1..15 step 1), its min, a middle value and its max in distance mode
\* (100..2000 step 50)
TimeSlider == {1, 5, 15}
DistanceSlider == {100, 500, 2000}
SnoozeDurations == {1500}

\* places a click on the map can select: those of the suggestions and one more
MapPlaces == Places \cup { [name |-> "B", lat |-> 0, lng |-> 1834] }
\* longitudes the App's own position watch reports
UserFixLngs == {0, 1834}

SliderValues(alertType) == IF alertType = "time" THEN TimeSlider ELSE DistanceSlider

DefaultSettings ==
  [alertType |-> "time", threshold |-> 5, enableSound |-> TRUE,
   alarmSound |-> "pulse", enableVibration |-> TRUE]

\* settings of the journeys explored: the defaults, and a distance alert at
\* 500 m saved in SettingsModal
SavedSettings ==
  { DefaultSettings,
    [DefaultSettings EXCEPT !.alertType = "distance", !.threshold = 500] }

\* ------------------------------------------------------- pure functions
Abs(x) == IF x < 0 THEN -x ELSE x
Max(a, b) == IF a >= b THEN a ELSE b
CeilDiv(a, b) == IF a >= 0 THEN (a + b - 1) \div b ELSE -((-a) \div b)

\* mutant of Leq: the comparison of the sentinels as plain numbers
LeqNumeric(a, b) == a <= b

\* JavaScript's a <= b and a < b on numbers: false when an operand is NaN
Leq(a, b) == a # NaN /\ b # NaN /\ a <= b
Lt(a, b) == a # NaN /\ b # NaN /\ a < b

\* Coordinates are whole metres of arc from latitude 0, longitude 0; a
\* degree is MetresPerDegree of them.  Between two points of the equator that
\* are near one another the haversine distance is the difference of their
\* longitudes.  HaversineMetres holds, for points given in whole degrees,
\* what the function returns in IEEE-754 doubles, rounded to the metre: at the
\* antipodes (12, 0) and (-12, 180) the sum a is 1.0000000000000002, so that
\* Math.sqrt(1 - a), and with it the result, is NaN.
MetresPerDegree == 111195
HaversineMetres ==
  <<0 * MetresPerDegree, 0 * MetresPerDegree, 0 * MetresPerDegree, 0 * MetresPerDegree>> :> 0 @@
  <<0 * MetresPerDegree, 0 * MetresPerDegree, 12 * MetresPerDegree, 0 * MetresPerDegree>> :> 1334339 @@
  <<0 * MetresPerDegree, 0 * MetresPerDegree, -12 * MetresPerDegree, 180 * MetresPerDegree>> :> 18680748 @@
  <<0 * MetresPerDegree, 0 * MetresPerDegree, 45 * MetresPerDegree, 90 * MetresPerDegree>> :> 10007543 @@
  <<12 * MetresPerDegree, 0 * MetresPerDegree, 0 * MetresPerDegree, 0 * MetresPerDegree>> :> 1334339 @@
  <<12 * MetresPerDegree, 0 * MetresPerDegree, 12 * MetresPerDegree, 0 * MetresPerDegree>> :> 0 @@
  <<12 * MetresPerDegree, 0 * MetresPerDegree, -12 * MetresPerDegree, 180 * MetresPerDegree>> :> NaN @@
  <<12 * MetresPerDegree, 0 * MetresPerDegree, 45 * MetresPerDegree, 90 * MetresPerDegree>> :> 9067499 @@
  <<-12 * MetresPerDegree, 180 * MetresPerDegree, 0 * MetresPerDegree, 0 * MetresPerDegree>> :> 18680748 @@
  <<-12 * MetresPerDegree, 180 * MetresPerDegree, 12 * MetresPerDegree, 0 * MetresPerDegree>> :> NaN @@
  <<-12 * MetresPerDegree, 180 * MetresPerDegree, -12 * MetresPerDegree, 180 * MetresPerDegree>> :> 0 @@
  <<-12 * MetresPerDegree, 180 * MetresPerDegree, 45 * MetresPerDegree, 90 * MetresPerDegree>> :> 10947588 @@
  <<45 * MetresPerDegree, 90 * MetresPerDegree, 0 * MetresPerDegree, 0 * MetresPerDegree>> :> 10007543 @@
  <<45 * MetresPerDegree, 90 * MetresPerDegree, 12 * MetresPerDegree, 0 * MetresPerDegree>> :> 9067499 @@
  <<45 * MetresPerDegree, 90 * MetresPerDegree, -12 * MetresPerDegree, 180 * MetresPerDegree>> :> 10947588 @@
  <<45 * MetresPerDegree, 90 * MetresPerDegree, 45 * MetresPerDegree, 90 * MetresPerDegree>> :> 0

calculateDistance(lat1, lon1, lat2, lon2) ==
  IF lat1 = NaN \/ lon1 = NaN \/ lat2 = NaN \/ lon2 = NaN
  THEN NaN
  ELSE IF <<lat1, lon1, lat2, lon2>> \in DOMAIN HaversineMetres
  THEN HaversineMetres[<<lat1, lon1, lat2, lon2>>]
  ELSE Abs(lon2 - lon1)

\* whole-metre distances up to 25 km at which the IEEE-754 double value of
\* (d / ((22 * 1000) / 3600)) / 60 lies just above the exact integer quotient
IeeeCeilExcess == {5500, 11000, 12100, 22000, 23100, 24200}

\* d / (v * 1000 / 3600) / 60 is 3 * d / (50 * v): the quotient is written with
\* the small factors, which keeps 3 * d within TLC's integers for any distance
\* on the globe.
\* mutant of calculateETA: the minutes of an h:mm display in place of the total
calculateETAMinutesPart(distanceMeters, avgSpeedKmH) ==
  IF distanceMeters = NaN THEN NaN
  ELSE IF distanceMeters <= 0 THEN 0
  ELSE (CeilDiv(distanceMeters * 3, avgSpeedKmH * 50)
        + (IF avgSpeedKmH = DefaultSpeedKmH /\ distanceMeters \in IeeeCeilExcess
           THEN 1 ELSE 0)) % 60

calculateETA(distanceMeters, avgSpeedKmH) ==
  IF distanceMeters = NaN THEN NaN
  ELSE IF distanceMeters <= 0 THEN 0
  ELSE CeilDiv(distanceMeters * 3, avgSpeedKmH * 50)
       + (IF avgSpeedKmH = DefaultSpeedKmH /\ distanceMeters \in IeeeCeilExcess
          THEN 1 ELSE 0)

\* mutants of shouldTrigger: exclusive boundary; distance comparison in both modes
shouldTriggerExclusive(s, dist, currentEta) ==
  IF s.alertType = "distance"
  THEN Lt(dist, s.threshold)
  ELSE Leq(currentEta, s.threshold)
shouldTriggerDistanceOnly(s, dist, currentEta) == Leq(dist, s.threshold)

shouldTrigger(s, dist, currentEta) ==
  IF s.alertType = "distance"
  THEN Leq(dist, s.threshold)
  ELSE Leq(currentEta, s.threshold)

\* mutants of isGated: no gate at all; gate still closed at snoozeUntil itself
isGatedNever(t, until) == FALSE
isGatedInclusive(t, until) == t <= until

isGated(t, until) == t < until

\* mutant of remainingSeconds: Math.floor in place of Math.ceil
remainingSecondsFloor(until, t) == Max(0, (until - t) \div 1000)

remainingSeconds(until, t) == Max(0, CeilDiv(until - t, 1000))

\* The alert channels of the host.  Each is "ok", "unsupported" (no
\* navigator.vibrate, no permission for notifications) or "throws" (the
\* browser API raises an exception when called).
ChannelOutcomes == {"ok", "unsupported", "throws"}
WorkingChannels == [audio |-> "ok", vibrate |-> "ok", notification |-> "ok"]
Hosts == [audio : ChannelOutcomes, vibrate : ChannelOutcomes,
          notification : ChannelOutcomes]
\* what a call did: whether the channel produced its effect, and whether an
\* exception left the function
NotCalled == [done |-> FALSE, threw |-> FALSE]

\* mutant of playAlarmSound: the 'none' profile is synthesised like any other
playAlarmSoundAlways(host, soundId) ==
  [done |-> host.audio = "ok", threw |-> FALSE]
\* mutant of playAlarmSound: no try/catch around the Web Audio calls
playAlarmSoundUncaught(host, soundId) ==
  [done |-> soundId # "none" /\ host.audio = "ok",
   threw |-> soundId # "none" /\ host.audio # "ok"]

playAlarmSound(host, soundId) ==
  [done |-> soundId # "none" /\ host.audio = "ok", threw |-> FALSE]

triggerHaptic(host) == [done |-> host.vibrate = "ok", threw |-> FALSE]

\* mutant of sendSystemNotification: no try/catch around the constructor
sendSystemNotificationUncaught(host) ==
  [done |-> host.notification = "ok", threw |-> host.notification = "throws"]

sendSystemNotification(host) ==
  [done |-> host.notification = "ok", threw |-> FALSE]

\* addToHistory: the new item, then the first 9 of the items with other names.
\* An item's id is Date.now() of its activation; ids are only compared with
\* one another (deleteHistoryItem), and the clicks of two activations never
\* fall into one millisecond, so a new item takes the least id no kept item
\* holds.  The timestamp of an item is displayed only and is left out.
HistoryKeep == 9
Min(a, b) == IF a <= b THEN a ELSE b
NewId(items) ==
  CHOOSE i \in 1..(Len(items) + 1) :
    /\ \A k \in 1..Len(items) : items[k].id # i
    /\ \A j \in 1..(i - 1) : \E k \in 1..Len(items) : items[k].id = j

\* mutant of addToHistory: slice(0, 10)
addToHistoryKeepsTen(prev, loc) ==
  LET others == SelectSeq(prev, LAMBDA h : h.destination.name # loc.name)
      kept == SubSeq(others, 1, Min(HistoryKeep + 1, Len(others)))
  IN <<[id |-> NewId(kept), destination |-> loc]>> \o kept
\* mutant of addToHistory: no filter on the name
addToHistoryUnfiltered(prev, loc) ==
  LET kept == SubSeq(prev, 1, Min(HistoryKeep, Len(prev)))
  IN <<[id |-> NewId(kept), destination |-> loc]>> \o kept

addToHistory(prev, loc) ==
  LET others == SelectSeq(prev, LAMBDA h : h.destination.name # loc.name)
      kept == SubSeq(others, 1, Min(HistoryKeep, Len(others)))
  IN <<[id |-> NewId(kept), destination |-> loc]>> \o kept

\* geminiService: retryWithBackoff(fn, maxRetries = 2, initialDelay = 1500)
MaxRetries == 2
InitialDelayMs == 1500
\* what a call of the service does
DetailsOutcomes == {"ok", "rateLimit", "error"}
TipsOutcomes == {"ok", "error"}
\* ... and with a response that has no text (response.text || "")
TipsTexts == TipsOutcomes \cup {"empty"}
\* mutant of retries: the retry loop without the test of the last attempt
retriesForever(attempt, outcome) == outcome = "rateLimit"
\* retryWithBackoff's catch: the failed attempt is followed by another one
retries(attempt, outcome) == outcome = "rateLimit" /\ attempt < MaxRetries

\* a value of aiDetails or travelTips: the query it was made for and whether
\* the service or the local fallback made it.  null and '' are "none"; the
\* fallback of the tips is one string for every destination.
Result(query, from) == [query |-> query, from |-> from]
NoDetails == Result("", "none")
NoTips == Result("", "none")
FallbackDetails(query) == Result(query, "fallback")
FallbackTips == Result("", "fallback")
NoLookup == [name |-> "", stage |-> "none", outcome |-> "none"]

\* aiCache: the entries are <<kind, query, value>>, the key being the kind and
\* the query (every call is made with the language of the settings, which the
\* model keeps fixed) and the value "text" or, for a response without text,
\* the empty string
Stored(cache, kind, query) ==
  \E e \in cache : e[1] = kind /\ e[2] = query
\* aiCache[cacheKey] = result
CachePut(cache, kind, query, value) ==
  {e \in cache : ~(e[1] = kind /\ e[2] = query)} \cup {<<kind, query, value>>}
\* if (aiCache[cacheKey]): the key is there and its value is truthy
CacheHit(cache, kind, query) ==
  \E e \in cache : e[1] = kind /\ e[2] = query /\ e[3] # ""

\* retryWithBackoff(fn, maxRetries, initialDelay): the arguments a call is
\* made with, what a call of fn does (it resolves, or rejects with a
\* rate-limit error or with another error), and the state of a call: the loop
\* index i, the delay, the calls of fn made, the delays waited, where the call
\* stands, the error the catch block caught last and what the call returned
\* or threw
RetryCounts == 0..MaxAttempts
RetryDelays == {0, 100, 1500}
FnOutcomes == {"ok", "rateLimit", "error"}
NoRun == [maxRetries |-> 0, i |-> 0, delay |-> 0, calls |-> 0, waited |-> <<>>,
          at |-> "none", caught |-> "none", with |-> "none", from |-> 0]

\* mutant of rethrows: only the last attempt's error is thrown on
rethrowsLastOnly(i, maxRetries, isRateLimit) == i = maxRetries - 1

\* the catch block's test: the error is thrown on, not retried
rethrows(i, maxRetries, isRateLimit) == i = maxRetries - 1 \/ ~isRateLimit

\* the search box: typed queries (a trimmed query of fewer than three
\* characters is not sent), the dropdown's list, the timer and the fetches
TypedQueries == {"", "ma", "mai", "main"}
TooShort(q) == q \in {"", "ma"}
NoSuggestions == [query |-> "", found |-> FALSE]
SuggestionsFor(q) == [query |-> q, found |-> TRUE]
NoTimer == [query |-> "none"]
NoRequest == [query |-> "", aborted |-> FALSE, outcome |-> "none"]
FetchOutcomes == {"ok", "error"}

\* ------------------------------------------------------------------ state
VARIABLES
  mode, destination, settings,          \* App state
  userLocation, startingPoint,          \* App: the user's position (a longitude or Null)
  isStartLinked,                        \* App: the starting point follows the user
  history,                              \* App: recent trips, newest first
  aiDetails, travelTips, loading,       \* App: AI enrichment of the destination
  lookups,                              \* loadAIData calls in flight
  aiCache,                              \* geminiService: keys of the cached results
  run,                                  \* geminiService: a call of retryWithBackoff
  background,                           \* utils: the background service and the host's
                                        \* keep-alive intervals and wake locks
  settled,                              \* the lookup the last step settled, its outcome
  searchQuery, suggestions,             \* App's search box and its dropdown
  isSearching, searchError,
  searchTimer, requests,                \* the pending debounce timer, fetches in flight
  answered,                             \* the fetch the last step settled, its outcome
  userWatches, userWatchId,             \* App's own geolocation watch, effect's id
  geolocation,                          \* the host has navigator.geolocation
  channels,                             \* the host's audio, vibration and notification
  sample, sampleLat,                    \* longitude and latitude of the fix the last
                                        \* step processed
  showSettings, localSettings,          \* SettingsModal
  pendingClicks,                        \* reverse-geocoding requests in flight
  distance, eta, error,                 \* LocationTracker state
  snoozeUntil, secondsLeft,
  watches, watchId,                     \* geolocation watch registry, effect's id
  countdownTimers, countdownInterval,   \* snooze countdown intervals, effect's id
  alarmTimers, alarmInterval,           \* alarm-repeat intervals, effect's id
  now,                                  \* Date.now()
  arrivedCount,                         \* arrival events of the current session
  gate,                                 \* history of the displayed fix: "gated" when it met
                                        \* the trigger condition under snooze, "released"
                                        \* when it fired after a gated fix at the same distance
  last                                  \* what the last step did

appVars == <<mode, destination, settings, userWatches, userWatchId>>
userVars == <<userLocation, startingPoint, isStartLinked>>
aiVars == <<aiDetails, travelTips, loading, lookups, aiCache, run>>
searchVars == <<searchQuery, suggestions, isSearching, searchError, searchTimer, requests>>
modalVars == <<showSettings, localSettings>>
trackerVars == <<distance, eta, error, snoozeUntil, secondsLeft>>
watchVars == <<watches, watchId>>
countdownVars == <<countdownTimers, countdownInterval>>
alarmVars == <<alarmTimers, alarmInterval>>
vars == <<appVars, userVars, history, aiVars, settled, searchVars, answered, background, geolocation, channels, modalVars, pendingClicks, trackerVars,
          watchVars, countdownVars, alarmVars, now, arrivedCount, gate, sample, sampleLat, last>>

\* the step processes no position fix and leaves the App's position state alone
NoFix == sample' = Null /\ sampleLat' = Null /\ UNCHANGED <<geolocation, channels, userVars>>

\* the step settles no lookup and leaves the AI enrichment alone
NoAi == settled' = NoLookup /\ UNCHANGED aiVars

\* the step settles no fetch and leaves the search box alone
NoSearch == answered' = NoRequest /\ UNCHANGED searchVars

\* The search effect after a render that set the query to q: when the query
\* changed, the cleanup clears the pending timer and aborts the controller of
\* the fetch in flight, and the body arms a new 600 ms timer for q.
SearchEffect(q) ==
  IF q # searchQuery
  THEN /\ searchTimer' = [query |-> q]
       /\ requests' = {[r EXCEPT !.aborted = TRUE] : r \in requests}
  ELSE UNCHANGED <<searchTimer, requests>>

\* an alert: playAlarmSound was called (play) and made a sound (audible),
\* triggerHaptic was called (haptic) and vibrated (vibrated), an exception
\* left the alert (threw)
Quiet == [play |-> FALSE, audible |-> FALSE, haptic |-> FALSE,
          vibrated |-> FALSE, threw |-> FALSE]
Step(op, from, fired, alert) ==
  [op |-> op, from |-> from, fired |-> fired,
   play |-> alert.play, audible |-> alert.audible, haptic |-> alert.haptic,
   vibrated |-> alert.vibrated, threw |-> alert.threw]

\* --------------------------------------------------- registries of the host
\* A registry maps the ids the host has handed out (watchPosition,
\* setInterval) to what was registered.  Ids are positive; 0 stands for
\* "no id" (undefined).  A registry holding MaxIds entries accepts no more.
NoEntries == [i \in {} |-> 0]
HasFreeId(reg) == \E i \in 1..MaxIds : i \notin DOMAIN reg
FreeId(reg) ==
  IF HasFreeId(reg)
  THEN CHOOSE i \in 1..MaxIds :
         i \notin DOMAIN reg /\ \A j \in 1..(i - 1) : j \in DOMAIN reg
  ELSE 0
Register(reg, entry) ==
  IF HasFreeId(reg) THEN reg @@ (FreeId(reg) :> entry) ELSE reg
Unregister(reg, id) == [i \in DOMAIN reg \ {id} |-> reg[i]]

\* ------------------------------------------------ background service
\* utils' module state (keepAliveInterval, wakeLock; 0 is null), the host's
\* registries of running keep-alive intervals and of screen wake locks held,
\* the awaits at which calls of initBackgroundService are parked (calls
\* parked at the same await are not told apart), and whether the then of a
\* wakeLock.release() is still to run
NoBackground == [keepAliveInterval |-> 0, keepAlives |-> NoEntries,
                 wakeLock |-> 0, locks |-> NoEntries,
                 inits |-> {}, releasing |-> FALSE]

\* initBackgroundService from its step 2 to the await in requestWakeLock:
\* without a working AudioContext the constructor throws and the call ends
StartKeepAlive(b, host) ==
  IF host.audio # "ok" THEN b
  ELSE LET cleared == IF b.keepAliveInterval # 0
                      THEN Unregister(b.keepAlives, b.keepAliveInterval)
                      ELSE b.keepAlives
       IN [b EXCEPT !.keepAlives = Register(cleared, "playSilentPing"),
                    !.keepAliveInterval = FreeId(cleared),
                    !.inits = @ \cup {"lock"}]

\* initBackgroundService up to its first await.  With permission granted there
\* is no prompt; a host without it either has no Notification (no prompt) or
\* has not granted it yet (the call awaits the prompt).
initBackgroundService(b, host) ==
  IF host.notification = "unsupported"
  THEN {StartKeepAlive(b, host), [b EXCEPT !.inits = @ \cup {"permission"}]}
  ELSE {StartKeepAlive(b, host)}

\* stopBackgroundService, releaseWakeLock included: release() gives the lock
\* up, and its then sets wakeLock to null later
stopBackgroundService(b) ==
  LET stopped == IF b.keepAliveInterval # 0
                 THEN [b EXCEPT !.keepAlives = Unregister(@, b.keepAliveInterval),
                                !.keepAliveInterval = 0]
                 ELSE b
  IN IF stopped.wakeLock # 0
     THEN [stopped EXCEPT !.locks = Unregister(@, stopped.wakeLock),
                          !.releasing = TRUE]
     ELSE stopped

\* LocationTracker's effect with no dependencies: its body at mount, its
\* cleanup at unmount
BackgroundEffect(was, is) ==
  IF ~was /\ is THEN initBackgroundService(background, channels)
  ELSE IF was /\ ~is THEN {stopBackgroundService(background)}
  ELSE {background}

\* ------------------------------------------------------ AI enrichment
\* loadAIData(query, name) up to its first await that needs the service.  The
\* query (display_name) and the name are both the place's name here.  A cached
\* result resolves within the same task.
AfterDetails(name, rest, details, cache, ld) ==
  IF CacheHit(cache, "tips", name)
  THEN [aiDetails |-> details, travelTips |-> Result(name, "service"),
        loading |-> FALSE, lookups |-> rest, aiCache |-> cache]
  ELSE [aiDetails |-> details, travelTips |-> travelTips, loading |-> ld,
        lookups |-> rest \cup {[name |-> name, stage |-> "tips", attempt |-> 1,
                                delay |-> 0]},
        aiCache |-> cache]

loadAIData(name) ==
  IF CacheHit(aiCache, "details", name)
  THEN AfterDetails(name, lookups, Result(name, "service"), aiCache, TRUE)
  ELSE [aiDetails |-> aiDetails, travelTips |-> travelTips, loading |-> TRUE,
        lookups |-> lookups \cup {[name |-> name, stage |-> "details",
                                   attempt |-> 1, delay |-> InitialDelayMs]},
        aiCache |-> aiCache]

SetAi(r) ==
  /\ aiDetails' = r.aiDetails /\ travelTips' = r.travelTips
  /\ loading' = r.loading /\ lookups' = r.lookups /\ aiCache' = r.aiCache
  /\ UNCHANGED run

\* ----------------------------------------------------------------- effects
\* App: the alarm loop effect (cleanup of the previous instance, then the body)
triggerAlert(s) ==
  LET snd == IF s.enableSound THEN playAlarmSound(channels, s.alarmSound)
             ELSE NotCalled
      hap == IF s.enableVibration /\ ~snd.threw THEN triggerHaptic(channels)
             ELSE NotCalled
  IN [play |-> s.enableSound, audible |-> snd.done,
      haptic |-> s.enableVibration /\ ~snd.threw, vibrated |-> hap.done,
      threw |-> snd.threw \/ hap.threw]

AlarmDeps(m, s) == <<m, s.enableSound, s.enableVibration, s.alarmSound>>

\* mutant of AlarmLoopCleanup: clearInterval forgotten
AlarmLoopCleanupMissing(timers, interval) == timers

AlarmLoopCleanup(timers, interval) ==
  IF interval # 0 THEN Unregister(timers, interval) ELSE timers

\* mutant of AlarmLoopEffect: the interval is started without the first alert
AlarmLoopEffectDelayed(m, s) ==
  LET cleaned == AlarmLoopCleanup(alarmTimers, alarmInterval) IN
  IF m = "ALARM"
  THEN [timers |-> Register(cleaned,
                    [due |-> now + AlarmRepeatMs, enableSound |-> s.enableSound,
                     alarmSound |-> s.alarmSound,
                     enableVibration |-> s.enableVibration]),
        interval |-> FreeId(cleaned),
        alert |-> Quiet]
  ELSE [timers |-> cleaned, interval |-> 0, alert |-> Quiet]

AlarmLoopEffect(m, s) ==
  LET cleaned == AlarmLoopCleanup(alarmTimers, alarmInterval) IN
  IF m = "ALARM" /\ triggerAlert(s).threw
  THEN [timers |-> cleaned, interval |-> 0, alert |-> triggerAlert(s)]
  ELSE IF m = "ALARM"
  THEN [timers |-> Register(cleaned,
                    [due |-> now + AlarmRepeatMs, enableSound |-> s.enableSound,
                     alarmSound |-> s.alarmSound,
                     enableVibration |-> s.enableVibration]),
        interval |-> FreeId(cleaned),
        alert |-> triggerAlert(s)]
  ELSE [timers |-> cleaned, interval |-> 0, alert |-> Quiet]

\* LocationTracker: the position-watch effect
\* mutant of WatchCleanup: clearWatch forgotten
WatchCleanupMissing(reg, id) == reg

WatchCleanup(reg, id) == Unregister(reg, id)

\* error is the message the effect passes to setError ("" when it does not)
WatchEffect(reg, id, d, s, until) ==
  LET cleaned == WatchCleanup(reg, id) IN
  IF geolocation
  THEN [reg |-> Register(cleaned, [destination |-> d, settings |-> s, snoozeUntil |-> until]),
        id |-> FreeId(cleaned), error |-> ""]
  ELSE [reg |-> cleaned, id |-> 0, error |-> "geoError"]

\* App: the effect that watches the user's position
UserWatchCleanup(reg, id) == Unregister(reg, id)

UserWatchEffect(reg, id, m, linked) ==
  LET cleaned == UserWatchCleanup(reg, id) IN
  IF geolocation
  THEN [reg |-> Register(cleaned, [mode |-> m, isStartLinked |-> linked]),
        id |-> FreeId(cleaned)]
  ELSE [reg |-> cleaned, id |-> 0]

\* LocationTracker: the snooze countdown effect
\* mutant of CountdownCleanup: clearInterval forgotten
CountdownCleanupMissing(timers, interval) == timers

CountdownCleanup(timers, interval) == Unregister(timers, interval)

\* mutant of CountdownEffect: a running countdown is kept as it is
CountdownEffectKeepsTimer(timers, interval, until, left) ==
  IF interval \in DOMAIN timers
  THEN [timers |-> timers, interval |-> interval, secondsLeft |-> left]
  ELSE IF until > now
  THEN [timers |-> Register(timers, [due |-> now + CountdownMs, snoozeUntil |-> until]),
        interval |-> FreeId(timers), secondsLeft |-> left]
  ELSE [timers |-> timers, interval |-> 0, secondsLeft |-> 0]

CountdownEffect(timers, interval, until, left) ==
  LET cleaned == CountdownCleanup(timers, interval) IN
  IF until > now
  THEN [timers |-> Register(cleaned, [due |-> now + CountdownMs, snoozeUntil |-> until]),
        interval |-> FreeId(cleaned), secondsLeft |-> left]
  ELSE [timers |-> cleaned, interval |-> 0, secondsLeft |-> 0]

TrackerMounted(m, d) == m \in {"TRACKING", "ALARM"} /\ d # NullLocation

TrackerState == [distance |-> distance, eta |-> eta, error |-> error,
                 snoozeUntil |-> snoozeUntil, secondsLeft |-> secondsLeft]
FreshTracker == [distance |-> Null, eta |-> Null, error |-> "",
                 snoozeUntil |-> 0, secondsLeft |-> 0]

\* One render of App with the new state (m, d, s, linked): the alarm loop
\* effect and the user-position watch effect run when one of their
\* dependencies changed; LocationTracker is mounted, unmounted, or re-rendered
\* with a new onArrived (which re-runs the watch effect).  tr is the tracker's
\* state after the step if it stays mounted.
Render(m, d, s, linked, tr, op, fired) ==
  LET was == TrackerMounted(mode, destination)
      is == TrackerMounted(m, d)
      loop == IF AlarmDeps(m, s) # AlarmDeps(mode, settings)
              THEN AlarmLoopEffect(m, s)
              ELSE [timers |-> alarmTimers, interval |-> alarmInterval, alert |-> Quiet]
      st == IF is THEN (IF was THEN tr ELSE FreshTracker) ELSE FreshTracker
      w == IF is
           THEN WatchEffect(watches, IF was THEN watchId ELSE 0, d, s, st.snoozeUntil)
           ELSE [reg |-> IF was THEN WatchCleanup(watches, watchId) ELSE watches,
                 id |-> 0, error |-> ""]
      u == IF m # mode \/ linked # isStartLinked
           THEN UserWatchEffect(userWatches, userWatchId, m, linked)
           ELSE [reg |-> userWatches, id |-> userWatchId]
      c == IF is /\ (~was \/ st.snoozeUntil # snoozeUntil)
           THEN CountdownEffect(countdownTimers, IF was THEN countdownInterval ELSE 0,
                                st.snoozeUntil, st.secondsLeft)
           ELSE IF was /\ ~is
           THEN [timers |-> CountdownCleanup(countdownTimers, countdownInterval),
                 interval |-> 0, secondsLeft |-> 0]
           ELSE [timers |-> countdownTimers, interval |-> countdownInterval,
                 secondsLeft |-> st.secondsLeft]
  IN /\ mode' = m /\ destination' = d /\ settings' = s
     /\ userWatches' = u.reg /\ userWatchId' = u.id
     /\ alarmTimers' = loop.timers /\ alarmInterval' = loop.interval
     /\ distance' = st.distance /\ eta' = st.eta
     /\ error' = IF w.error # "" THEN w.error ELSE st.error
     /\ snoozeUntil' = st.snoozeUntil /\ secondsLeft' = c.secondsLeft
     /\ watches' = w.reg /\ watchId' = w.id
     /\ countdownTimers' = c.timers /\ countdownInterval' = c.interval
     /\ background' \in BackgroundEffect(was, is)
     /\ last' = Step(op, mode, fired, loop.alert)

\* a render of App whose isStartLinked is unchanged
Commit(m, d, s, tr, op, fired) == Render(m, d, s, isStartLinked, tr, op, fired)

\* A state change of LocationTracker alone: App is not rendered again.
TrackerCommit(tr, op) ==
  LET w == IF tr.snoozeUntil # snoozeUntil
           THEN WatchEffect(watches, watchId, destination, settings, tr.snoozeUntil)
           ELSE [reg |-> watches, id |-> watchId, error |-> ""]
      c == IF tr.snoozeUntil # snoozeUntil
           THEN CountdownEffect(countdownTimers, countdownInterval,
                                tr.snoozeUntil, tr.secondsLeft)
           ELSE [timers |-> countdownTimers, interval |-> countdownInterval,
                 secondsLeft |-> tr.secondsLeft]
  IN /\ distance' = tr.distance /\ eta' = tr.eta
     /\ error' = IF w.error # "" THEN w.error ELSE tr.error
     /\ snoozeUntil' = tr.snoozeUntil /\ secondsLeft' = c.secondsLeft
     /\ watches' = w.reg /\ watchId' = w.id
     /\ countdownTimers' = c.timers /\ countdownInterval' = c.interval
     /\ UNCHANGED background
     /\ last' = Step(op, mode, FALSE, Quiet)
     /\ UNCHANGED <<appVars, alarmVars>>

\* ------------------------------------------------------------------- Init
\* the state after App's first render and effects, on a host with or without
\* navigator.geolocation (G), with alert channels of C, with settings of S and
\* with a history of H in localStorage
InitStored(S, G, C, H) ==
  /\ mode = "IDLE" /\ destination = NullLocation
  /\ settings \in S
  /\ geolocation \in G
  /\ channels \in C
  /\ history \in H
  /\ aiDetails = NoDetails /\ travelTips = NoTips /\ loading = FALSE
  /\ lookups = {} /\ aiCache = {} /\ settled = NoLookup
  /\ run = NoRun
  /\ background = NoBackground
  /\ searchQuery = "" /\ suggestions = NoSuggestions
  /\ isSearching = FALSE /\ searchError = ""
  /\ searchTimer = [query |-> ""] /\ requests = {} /\ answered = NoRequest
  /\ userLocation = Null /\ startingPoint = Null /\ isStartLinked = TRUE
  /\ userWatches = (IF geolocation
                    THEN Register(NoEntries, [mode |-> "IDLE", isStartLinked |-> TRUE])
                    ELSE NoEntries)
  /\ userWatchId = (IF geolocation THEN FreeId(NoEntries) ELSE 0)
  /\ sample = Null /\ sampleLat = Null
  /\ showSettings = FALSE /\ localSettings = settings
  /\ pendingClicks = {}
  /\ distance = Null /\ eta = Null /\ error = ""
  /\ snoozeUntil = 0 /\ secondsLeft = 0
  /\ watches = NoEntries /\ watchId = 0
  /\ countdownTimers = NoEntries /\ countdownInterval = 0
  /\ alarmTimers = NoEntries /\ alarmInterval = 0
  /\ now = StartTime
  /\ arrivedCount = 0
  /\ gate = "none"
  /\ last = Step("init", "IDLE", FALSE, Quiet)

\* nothing in localStorage: the history starts empty
InitHost(S, G, C) == InitStored(S, G, C, {<<>>})

\* a host whose audio, vibration and notifications work
InitOn(S, G) == InitHost(S, G, {WorkingChannels})

InitWith(S) == InitOn(S, {TRUE})

Init == InitWith(SavedSettings)

\* ------------------------------------------------------------ App actions
selectSuggestion(p) ==
  /\ NoFix
  /\ UNCHANGED history
  /\ mode = "IDLE"
  /\ Cardinality(loadAIData(p.name).lookups) <= MaxLookups
  /\ SetAi(loadAIData(p.name)) /\ settled' = NoLookup
  /\ searchQuery' = p.name /\ suggestions' = NoSuggestions
  /\ SearchEffect(p.name)
  /\ answered' = NoRequest /\ UNCHANGED <<isSearching, searchError>>
  /\ Commit("SEARCHING", p, settings, TrackerState, "selectSuggestion", FALSE)
  /\ gate' = "none"
  /\ UNCHANGED <<modalVars, pendingClicks, now, arrivedCount>>

\* handleMapClick up to its await: the request is in flight
handleMapClick(p) ==
  /\ NoFix
  /\ UNCHANGED history
  /\ NoAi
  /\ NoSearch
  /\ mode # "TRACKING"
  /\ Cardinality(pendingClicks) < MaxPending
  /\ pendingClicks' = pendingClicks \cup {p}
  /\ UNCHANGED background
  /\ last' = Step("handleMapClick", mode, FALSE, Quiet)
  /\ UNCHANGED <<appVars, modalVars, trackerVars, watchVars, countdownVars,
                 alarmVars, now, arrivedCount, gate>>

\* handleMapClick after its await, with a response of the geocoder
mapClickSettled(p) ==
  /\ NoFix
  /\ UNCHANGED history
  /\ p \in pendingClicks
  /\ Cardinality(loadAIData(p.name).lookups) <= MaxLookups
  /\ SetAi(loadAIData(p.name)) /\ settled' = NoLookup
  /\ NoSearch
  /\ pendingClicks' = pendingClicks \ {p}
  /\ Commit("SEARCHING", p, settings, TrackerState, "mapClickSettled", FALSE)
  /\ gate' = "none"
  /\ UNCHANGED <<modalVars, now, arrivedCount>>

activateAlarm ==
  /\ NoFix
  /\ NoAi
  /\ NoSearch
  /\ history' = addToHistory(history, destination)
  /\ mode = "SEARCHING" /\ destination # NullLocation
  /\ Commit("TRACKING", destination, settings, TrackerState, "activateAlarm", FALSE)
  /\ arrivedCount' = 0
  /\ gate' = "none"
  /\ UNCHANGED <<modalVars, pendingClicks, now>>

\* the x button of a history item, and the clear button of the list
deleteHistoryItem(id) ==
  /\ NoFix
  /\ NoAi
  /\ NoSearch
  /\ mode = "IDLE"
  /\ \E k \in 1..Len(history) : history[k].id = id
  /\ history' = SelectSeq(history, LAMBDA h : h.id # id)
  /\ UNCHANGED background
  /\ last' = Step("deleteHistoryItem", mode, FALSE, Quiet)
  /\ UNCHANGED <<appVars, modalVars, pendingClicks, trackerVars, watchVars,
                 countdownVars, alarmVars, now, arrivedCount, gate>>

clearHistory ==
  /\ NoFix
  /\ NoAi
  /\ NoSearch
  /\ mode = "IDLE" /\ Len(history) > 0
  /\ history' = <<>>
  /\ UNCHANGED background
  /\ last' = Step("clearHistory", mode, FALSE, Quiet)
  /\ UNCHANGED <<appVars, modalVars, pendingClicks, trackerVars, watchVars,
                 countdownVars, alarmVars, now, arrivedCount, gate>>

\* resetApp without setDestination(null)
resetAppKeepsDestination ==
  /\ NoFix
  /\ UNCHANGED history
  /\ aiDetails' = NoDetails /\ settled' = NoLookup
  /\ UNCHANGED <<travelTips, loading, lookups, aiCache, run>>
  /\ searchQuery' = "" /\ suggestions' = NoSuggestions
  /\ SearchEffect("")
  /\ answered' = NoRequest /\ UNCHANGED <<isSearching, searchError>>
  /\ mode \in {"SEARCHING", "TRACKING", "ALARM"}
  /\ Commit("IDLE", destination, settings, TrackerState, "resetApp", FALSE)
  /\ arrivedCount' = 0
  /\ gate' = "none"
  /\ UNCHANGED <<modalVars, pendingClicks, now>>

\* the cancel and dismiss buttons: the session ends
resetApp ==
  /\ NoFix
  /\ UNCHANGED history
  /\ aiDetails' = NoDetails /\ settled' = NoLookup
  /\ UNCHANGED <<travelTips, loading, lookups, aiCache, run>>
  /\ searchQuery' = "" /\ suggestions' = NoSuggestions
  /\ SearchEffect("")
  /\ answered' = NoRequest /\ UNCHANGED <<isSearching, searchError>>
  /\ mode \in {"SEARCHING", "TRACKING", "ALARM"}
  /\ Commit("IDLE", NullLocation, settings, TrackerState, "resetApp", FALSE)
  /\ arrivedCount' = 0
  /\ gate' = "none"
  /\ UNCHANGED <<modalVars, pendingClicks, now>>

\* ------------------------------------------- background service: awaits
\* the permission prompt was answered: initBackgroundService goes on
permissionSettled ==
  /\ NoFix
  /\ NoAi
  /\ NoSearch
  /\ UNCHANGED history
  /\ "permission" \in background.inits
  /\ background' = StartKeepAlive([background EXCEPT !.inits = @ \ {"permission"}],
                                  channels)
  /\ last' = Step("permissionSettled", mode, FALSE, Quiet)
  /\ UNCHANGED <<appVars, modalVars, pendingClicks, trackerVars, watchVars,
                 countdownVars, alarmVars, now, arrivedCount, gate>>

\* navigator.wakeLock.request('screen') settled: requestWakeLock stores the
\* sentinel, or ignores the rejection
wakeLockSettled(granted) ==
  /\ NoFix
  /\ NoAi
  /\ NoSearch
  /\ UNCHANGED history
  /\ "lock" \in background.inits
  /\ granted => HasFreeId(background.locks)
  /\ background' =
       IF granted
       THEN [background EXCEPT !.inits = @ \ {"lock"},
                               !.locks = Register(@, "screen"),
                               !.wakeLock = FreeId(background.locks)]
       ELSE [background EXCEPT !.inits = @ \ {"lock"}]
  /\ last' = Step("wakeLockSettled", mode, FALSE, Quiet)
  /\ UNCHANGED <<appVars, modalVars, pendingClicks, trackerVars, watchVars,
                 countdownVars, alarmVars, now, arrivedCount, gate>>

\* the then (or catch) of wakeLock.release(): wakeLock = null
releaseSettled ==
  /\ NoFix
  /\ NoAi
  /\ NoSearch
  /\ UNCHANGED history
  /\ background.releasing
  /\ background' = [background EXCEPT !.wakeLock = 0, !.releasing = FALSE]
  /\ last' = Step("releaseSettled", mode, FALSE, Quiet)
  /\ UNCHANGED <<appVars, modalVars, pendingClicks, trackerVars, watchVars,
                 countdownVars, alarmVars, now, arrivedCount, gate>>

\* ------------------------------------------------------- retryWithBackoff
\* the loop's test and the call of fn that follows it, or the throw after
\* the loop
Attempt(r) ==
  IF r.i < r.maxRetries
  THEN [r EXCEPT !.calls = r.calls + 1, !.at = "calling"]
  ELSE [r EXCEPT !.at = "threw", !.with = "Max retries reached", !.from = 0]

\* a call of retryWithBackoff up to its first await
retryWithBackoff(maxRetries, initialDelay) ==
  /\ NoFix
  /\ NoSearch
  /\ UNCHANGED history
  /\ run.at \in {"none", "returned", "threw"}
  /\ run' = Attempt([NoRun EXCEPT !.maxRetries = maxRetries, !.delay = initialDelay])
  /\ settled' = NoLookup
  /\ UNCHANGED <<aiDetails, travelTips, loading, lookups, aiCache>>
  /\ UNCHANGED background
  /\ last' = Step("retryWithBackoff", mode, FALSE, Quiet)
  /\ UNCHANGED <<appVars, modalVars, pendingClicks, trackerVars, watchVars,
                 countdownVars, alarmVars, now, arrivedCount, gate>>

\* the promise of fn settled: the result is returned, or the catch block runs
fnSettled(outcome) ==
  /\ NoFix
  /\ NoSearch
  /\ UNCHANGED history
  /\ run.at = "calling"
  /\ run' = IF outcome = "ok"
            THEN [run EXCEPT !.at = "returned", !.with = "result", !.from = run.calls]
            ELSE IF rethrows(run.i, run.maxRetries, outcome = "rateLimit")
            THEN [run EXCEPT !.at = "threw", !.caught = outcome, !.with = outcome,
                             !.from = run.calls]
            ELSE [run EXCEPT !.at = "waiting", !.caught = outcome]
  /\ settled' = NoLookup
  /\ UNCHANGED <<aiDetails, travelTips, loading, lookups, aiCache>>
  /\ UNCHANGED background
  /\ last' = Step("fnSettled", mode, FALSE, Quiet)
  /\ UNCHANGED <<appVars, modalVars, pendingClicks, trackerVars, watchVars,
                 countdownVars, alarmVars, now, arrivedCount, gate>>

\* the setTimeout of the catch block fired: the delay doubles and the loop
\* goes on
retryDelayElapsed ==
  /\ NoFix
  /\ NoSearch
  /\ UNCHANGED history
  /\ run.at = "waiting"
  /\ run' = Attempt([run EXCEPT !.waited = Append(run.waited, run.delay),
                                !.delay = 2 * run.delay, !.i = run.i + 1])
  /\ settled' = NoLookup
  /\ UNCHANGED <<aiDetails, travelTips, loading, lookups, aiCache>>
  /\ UNCHANGED background
  /\ last' = Step("retryDelayElapsed", mode, FALSE, Quiet)
  /\ UNCHANGED <<appVars, modalVars, pendingClicks, trackerVars, watchVars,
                 countdownVars, alarmVars, now, arrivedCount, gate>>

\* ---------------------------------------------------------------- search
\* the search box's onChange: the input is rendered in the IDLE panel
setSearchQuery(q) ==
  /\ NoFix
  /\ NoAi
  /\ UNCHANGED history
  /\ mode = "IDLE"
  /\ q # searchQuery
  /\ searchQuery' = q
  /\ SearchEffect(q)
  /\ answered' = NoRequest
  /\ UNCHANGED <<suggestions, isSearching, searchError>>
  /\ Commit(mode, destination, settings, TrackerState, "setSearchQuery", FALSE)
  /\ UNCHANGED <<modalVars, pendingClicks, now, arrivedCount, gate>>

\* the debounce timer fires: fetchSuggestions up to its await
fetchSuggestions ==
  /\ NoFix
  /\ NoAi
  /\ UNCHANGED history
  /\ searchTimer # NoTimer
  /\ searchTimer' = NoTimer
  /\ answered' = NoRequest
  /\ IF TooShort(searchTimer.query)
     THEN /\ suggestions' = NoSuggestions /\ isSearching' = FALSE
          /\ UNCHANGED requests
     ELSE /\ isSearching' = TRUE
          /\ requests' = requests \cup {[query |-> searchTimer.query, aborted |-> FALSE]}
          /\ UNCHANGED suggestions
  /\ searchError' = ""
  /\ UNCHANGED searchQuery
  /\ Commit(mode, destination, settings, TrackerState, "fetchSuggestions", FALSE)
  /\ UNCHANGED <<modalVars, pendingClicks, now, arrivedCount, gate>>

\* what a settled fetch writes when the signal's aborted flag is not read
searchSettledUnguarded(r, outcome) ==
  /\ NoFix
  /\ NoAi
  /\ UNCHANGED history
  /\ r \in requests
  /\ requests' = requests \ {r}
  /\ answered' = [query |-> r.query, aborted |-> r.aborted, outcome |-> outcome]
  /\ suggestions' = IF outcome = "ok" THEN SuggestionsFor(r.query) ELSE NoSuggestions
  /\ searchError' = IF outcome = "ok" THEN searchError ELSE "offlineError"
  /\ isSearching' = FALSE
  /\ UNCHANGED <<searchQuery, searchTimer>>
  /\ Commit(mode, destination, settings, TrackerState, "searchSettled", FALSE)
  /\ UNCHANGED <<modalVars, pendingClicks, now, arrivedCount, gate>>

\* fetchSuggestions after its await: the fetch answered (ok), failed (error)
\* or, its controller aborted, rejected with an AbortError
searchSettled(r, outcome) ==
  /\ NoFix
  /\ NoAi
  /\ UNCHANGED history
  /\ r \in requests
  /\ requests' = requests \ {r}
  /\ answered' = [query |-> r.query, aborted |-> r.aborted, outcome |-> outcome]
  /\ UNCHANGED <<searchQuery, searchTimer>>
  /\ IF r.aborted
     THEN /\ UNCHANGED <<suggestions, searchError, isSearching>>
          /\ UNCHANGED background
          /\ last' = Step("searchSettled", mode, FALSE, Quiet)
          /\ UNCHANGED <<appVars, trackerVars, watchVars, countdownVars, alarmVars>>
     ELSE /\ suggestions' = IF outcome = "ok" THEN SuggestionsFor(r.query)
                            ELSE NoSuggestions
          /\ searchError' = IF outcome = "ok" THEN searchError ELSE "offlineError"
          /\ isSearching' = FALSE
          /\ Commit(mode, destination, settings, TrackerState, "searchSettled", FALSE)
  /\ UNCHANGED <<modalVars, pendingClicks, now, arrivedCount, gate>>

\* the success callback of App's own watch id for a fix at (0, lng)
userWatchSuccess(id, lng) ==
  /\ id \in DOMAIN userWatches
  /\ sample' = lng /\ sampleLat' = 0 /\ UNCHANGED <<geolocation, channels>>
  /\ UNCHANGED history
  /\ NoAi
  /\ NoSearch
  /\ userLocation' = lng
  /\ startingPoint' = IF userWatches[id].isStartLinked /\ userWatches[id].mode = "IDLE"
                      THEN lng ELSE startingPoint
  /\ isStartLinked' = isStartLinked
  /\ Commit(mode, destination, settings, TrackerState, "userWatchSuccess", FALSE)
  /\ UNCHANGED <<modalVars, pendingClicks, now, arrivedCount, gate>>

toggleLink ==
  /\ mode = "IDLE"
  /\ sample' = Null /\ sampleLat' = Null /\ UNCHANGED <<geolocation, channels>>
  /\ UNCHANGED history
  /\ NoAi
  /\ NoSearch
  /\ isStartLinked' = ~isStartLinked
  /\ startingPoint' = IF ~isStartLinked /\ userLocation # Null
                      THEN userLocation ELSE startingPoint
  /\ userLocation' = userLocation
  /\ Render(mode, destination, settings, ~isStartLinked, TrackerState, "toggleLink", FALSE)
  /\ UNCHANGED <<modalVars, pendingClicks, now, arrivedCount, gate>>

\* handleMapClick after its await, the geocoder having failed: the fallback
\* name, and no AI lookup
mapClickFailed(p) ==
  /\ NoFix
  /\ UNCHANGED history
  /\ NoAi
  /\ NoSearch
  /\ p \in pendingClicks
  /\ pendingClicks' = pendingClicks \ {p}
  /\ Commit("SEARCHING", [p EXCEPT !.name = "tapMap"], settings, TrackerState,
            "mapClickFailed", FALSE)
  /\ gate' = "none"
  /\ UNCHANGED <<modalVars, now, arrivedCount>>

\* loadAIData after await getDestinationDetails: one attempt of the service
\* has ended.  A rate-limit error before the last attempt is followed by the
\* next attempt (after the delay, which doubles); otherwise the result or the
\* fallback is stored and getTravelTips is called.
detailsSettled(l, outcome) ==
  /\ NoFix
  /\ NoSearch
  /\ UNCHANGED history
  /\ l \in lookups /\ l.stage = "details"
  /\ settled' = [name |-> l.name, stage |-> "details", outcome |-> outcome]
  /\ IF outcome # "ok" /\ retries(l.attempt, outcome)
     THEN /\ lookups' = (lookups \ {l}) \cup
                          {[l EXCEPT !.attempt = l.attempt + 1, !.delay = 2 * l.delay]}
          /\ UNCHANGED background
          /\ last' = Step("detailsSettled", mode, FALSE, Quiet)
          /\ UNCHANGED <<aiDetails, travelTips, loading, aiCache, run, appVars,
                         trackerVars, watchVars, countdownVars, alarmVars>>
     ELSE /\ SetAi(AfterDetails(l.name, lookups \ {l},
                                IF outcome = "ok" THEN Result(l.name, "service")
                                ELSE FallbackDetails(l.name),
                                IF outcome = "ok"
                                THEN CachePut(aiCache, "details", l.name, "text")
                                ELSE aiCache,
                                loading))
          /\ Commit(mode, destination, settings, TrackerState, "detailsSettled", FALSE)
  /\ UNCHANGED <<modalVars, pendingClicks, now, arrivedCount, gate>>

\* loadAIData after await getTravelTips, and its finally
tipsSettled(l, outcome) ==
  /\ NoFix
  /\ NoSearch
  /\ UNCHANGED history
  /\ l \in lookups /\ l.stage = "tips"
  /\ settled' = [name |-> l.name, stage |-> "tips", outcome |-> outcome]
  /\ lookups' = lookups \ {l}
  /\ travelTips' = CASE outcome = "ok" -> Result(l.name, "service")
                      [] outcome = "empty" -> NoTips
                      [] OTHER -> FallbackTips
  /\ aiCache' = CASE outcome = "ok" -> CachePut(aiCache, "tips", l.name, "text")
                   [] outcome = "empty" -> CachePut(aiCache, "tips", l.name, "")
                   [] OTHER -> aiCache
  /\ loading' = FALSE
  /\ aiDetails' = aiDetails
  /\ UNCHANGED run
  /\ Commit(mode, destination, settings, TrackerState, "tipsSettled", FALSE)
  /\ UNCHANGED <<modalVars, pendingClicks, now, arrivedCount, gate>>

\* --------------------------------------------------- SettingsModal actions
openSettings ==
  /\ NoFix
  /\ UNCHANGED history
  /\ NoAi
  /\ NoSearch
  /\ mode = "IDLE" /\ ~showSettings
  /\ showSettings' = TRUE /\ localSettings' = settings
  /\ Commit(mode, destination, settings, TrackerState, "openSettings", FALSE)
  /\ UNCHANGED <<pendingClicks, now, arrivedCount, gate>>

onClose ==
  /\ NoFix
  /\ UNCHANGED history
  /\ NoAi
  /\ NoSearch
  /\ showSettings
  /\ showSettings' = FALSE /\ localSettings' = settings
  /\ Commit(mode, destination, settings, TrackerState, "onClose", FALSE)
  /\ UNCHANGED <<pendingClicks, now, arrivedCount, gate>>


\* one edit of the modal's local copy: alert type buttons and threshold
\* slider; sound and vibration switches
TriggerEdits(ls) ==
  { [ls EXCEPT !.alertType = "time"], [ls EXCEPT !.alertType = "distance"] }
  \cup { [ls EXCEPT !.threshold = v] : v \in SliderValues(ls.alertType) }
ChannelEdits(ls) ==
  { [ls EXCEPT !.enableSound = ~ls.enableSound],
    [ls EXCEPT !.enableVibration = ~ls.enableVibration] }
Edits(ls) == TriggerEdits(ls) \cup ChannelEdits(ls)

setLocalSettings(ls) ==
  /\ NoFix
  /\ UNCHANGED history
  /\ NoAi
  /\ NoSearch
  /\ showSettings
  /\ ls \in Edits(localSettings) /\ ls # localSettings
  /\ localSettings' = ls /\ showSettings' = showSettings
  /\ UNCHANGED background
  /\ last' = Step("setLocalSettings", mode, FALSE, Quiet)
  /\ UNCHANGED <<appVars, pendingClicks, trackerVars, watchVars, countdownVars,
                 alarmVars, now, arrivedCount, gate>>

handleTestSound(soundId) ==
  /\ NoFix
  /\ UNCHANGED history
  /\ NoAi
  /\ NoSearch
  /\ showSettings /\ localSettings.enableSound
  /\ localSettings' = [localSettings EXCEPT !.alarmSound = soundId]
  /\ showSettings' = showSettings
  /\ UNCHANGED background
  /\ last' = Step("handleTestSound", mode, FALSE,
                  LET snd == playAlarmSound(channels, soundId)
                      hap == IF localSettings.enableVibration /\ ~snd.threw
                             THEN triggerHaptic(channels) ELSE NotCalled
                  IN [play |-> TRUE, audible |-> snd.done,
                      haptic |-> localSettings.enableVibration /\ ~snd.threw,
                      vibrated |-> hap.done, threw |-> snd.threw \/ hap.threw])
  /\ UNCHANGED <<appVars, pendingClicks, trackerVars, watchVars, countdownVars,
                 alarmVars, now, arrivedCount, gate>>

handleSave ==
  /\ NoFix
  /\ UNCHANGED history
  /\ NoAi
  /\ NoSearch
  /\ showSettings
  /\ showSettings' = FALSE /\ localSettings' = localSettings
  /\ Commit(mode, destination, localSettings, TrackerState, "handleSave", FALSE)
  /\ UNCHANGED <<pendingClicks, now, arrivedCount, gate>>

\* ------------------------------------------------- LocationTracker actions
\* mutant of watchSuccess: the snooze gate returns before setDistance and setEta
watchSuccessGateFirst(id, lng) ==
  /\ sample' = lng /\ sampleLat' = 0 /\ UNCHANGED <<geolocation, channels, userVars>>
  /\ UNCHANGED history
  /\ NoAi
  /\ NoSearch
  /\ id \in DOMAIN watches
  /\ LET w == watches[id]
         dist == calculateDistance(0, lng, w.destination.lat, w.destination.lng)
         currentEta == calculateETA(dist, DefaultSpeedKmH)
         met == shouldTrigger(w.settings, dist, currentEta)
         fire == ~isGated(now, w.snoozeUntil) /\ met
         note == IF fire THEN sendSystemNotification(channels) ELSE NotCalled
         tr == IF isGated(now, w.snoozeUntil) THEN TrackerState
               ELSE [TrackerState EXCEPT !.distance = dist, !.eta = currentEta]
     IN /\ gate' = IF met /\ ~fire THEN "gated"
                   ELSE IF fire /\ gate = "gated" /\ dist = distance THEN "released"
                   ELSE "none"
        /\ IF fire /\ ~note.threw
           THEN /\ arrivedCount < MaxArrivals
                /\ arrivedCount' = arrivedCount + 1
                /\ Commit("ALARM", destination, settings, tr, "watchSuccess", TRUE)
           ELSE /\ arrivedCount' = arrivedCount
                /\ TrackerCommit(tr, "watchSuccess")
  /\ UNCHANGED <<modalVars, pendingClicks, now>>

\* the success callback of watch id for a fix at (lat, lng)
watchSuccessAt(id, lat, lng) ==
  /\ sample' = lng /\ sampleLat' = lat /\ UNCHANGED <<geolocation, channels, userVars>>
  /\ UNCHANGED history
  /\ NoAi
  /\ NoSearch
  /\ id \in DOMAIN watches
  /\ LET w == watches[id]
         dist == calculateDistance(lat, lng, w.destination.lat, w.destination.lng)
         currentEta == calculateETA(dist, DefaultSpeedKmH)
         met == shouldTrigger(w.settings, dist, currentEta)
         fire == ~isGated(now, w.snoozeUntil) /\ met
         note == IF fire THEN sendSystemNotification(channels) ELSE NotCalled
         tr == [TrackerState EXCEPT !.distance = dist, !.eta = currentEta]
     IN /\ gate' = IF met /\ ~fire THEN "gated"
                   ELSE IF fire /\ gate = "gated" /\ dist = distance THEN "released"
                   ELSE "none"
        /\ IF fire /\ ~note.threw
           THEN /\ arrivedCount < MaxArrivals
                /\ arrivedCount' = arrivedCount + 1
                /\ Commit("ALARM", destination, settings, tr, "watchSuccess", TRUE)
           ELSE /\ arrivedCount' = arrivedCount
                /\ TrackerCommit(tr, "watchSuccess")
  /\ UNCHANGED <<modalVars, pendingClicks, now>>

\* the success callback of watch id for a fix on the equator
watchSuccess(id, lng) == watchSuccessAt(id, 0, lng)

\* mutant of watchError: the error is logged and not recorded
watchErrorSilent(id) ==
  /\ NoFix
  /\ UNCHANGED history
  /\ NoAi
  /\ NoSearch
  /\ id \in DOMAIN watches
  /\ UNCHANGED background
  /\ last' = Step("watchError", mode, FALSE, Quiet)
  /\ UNCHANGED <<appVars, modalVars, pendingClicks, trackerVars, watchVars,
                 countdownVars, alarmVars, now, arrivedCount, gate>>

\* mutant of watchError: the error also ends the watch
watchErrorClearsWatch(id) ==
  /\ NoFix
  /\ UNCHANGED history
  /\ NoAi
  /\ NoSearch
  /\ id \in DOMAIN watches
  /\ watches' = Unregister(watches, id) /\ watchId' = 0
  /\ error' = "geo"
  /\ UNCHANGED background
  /\ last' = Step("watchError", mode, FALSE, Quiet)
  /\ UNCHANGED <<appVars, modalVars, pendingClicks, distance, eta, snoozeUntil,
                 secondsLeft, countdownVars, alarmVars, now, arrivedCount, gate>>

\* the error callback of watch id
watchError(id) ==
  /\ NoFix
  /\ UNCHANGED history
  /\ NoAi
  /\ NoSearch
  /\ id \in DOMAIN watches
  /\ TrackerCommit([TrackerState EXCEPT !.error = "geo"], "watchError")
  /\ UNCHANGED <<modalVars, pendingClicks, now, arrivedCount, gate>>

\* SnoozeController.snooze(duration): no caller of setSnoozeUntil is in the source
snooze(duration) ==
  /\ NoFix
  /\ UNCHANGED history
  /\ NoAi
  /\ NoSearch
  /\ TrackerMounted(mode, destination)
  /\ TrackerCommit([TrackerState EXCEPT !.snoozeUntil = now + duration], "snooze")
  /\ UNCHANGED <<modalVars, pendingClicks, now, arrivedCount, gate>>

\* ----------------------------------------------------------------- timers
\* mutant of countdownTick: the tick that finds the snooze expired raises the alarm
countdownTickArriving(id) ==
  /\ NoFix
  /\ UNCHANGED history
  /\ NoAi
  /\ NoSearch
  /\ id \in DOMAIN countdownTimers
  /\ countdownTimers[id].due <= now
  /\ remainingSeconds(countdownTimers[id].snoozeUntil, now) = 0
  /\ arrivedCount < MaxArrivals
  /\ arrivedCount' = arrivedCount + 1
  /\ Commit("ALARM", destination, settings, [TrackerState EXCEPT !.secondsLeft = 0],
            "countdownTick", TRUE)
  /\ UNCHANGED <<modalVars, pendingClicks, now, gate>>

countdownTick(id) ==
  /\ NoFix
  /\ UNCHANGED history
  /\ NoAi
  /\ NoSearch
  /\ id \in DOMAIN countdownTimers
  /\ countdownTimers[id].due <= now
  /\ LET remaining == remainingSeconds(countdownTimers[id].snoozeUntil, now) IN
     /\ secondsLeft' = remaining
     /\ countdownTimers' =
          IF remaining = 0
          THEN Unregister(countdownTimers, id)
          ELSE [countdownTimers EXCEPT ![id].due = now + CountdownMs]
  /\ UNCHANGED background
  /\ last' = Step("countdownTick", mode, FALSE, Quiet)
  /\ UNCHANGED <<appVars, modalVars, pendingClicks, distance, eta, error, snoozeUntil,
                 watchVars, countdownInterval, alarmVars, now, arrivedCount, gate>>

alarmTick(id) ==
  /\ NoFix
  /\ UNCHANGED history
  /\ NoAi
  /\ NoSearch
  /\ id \in DOMAIN alarmTimers
  /\ alarmTimers[id].due <= now
  /\ alarmTimers' = [alarmTimers EXCEPT ![id].due = now + AlarmRepeatMs]
  /\ UNCHANGED background
  /\ last' = Step("alarmTick", mode, FALSE, triggerAlert(alarmTimers[id]))
  /\ UNCHANGED <<appVars, modalVars, pendingClicks, trackerVars, watchVars,
                 countdownVars, alarmInterval, now, arrivedCount, gate>>

clockTick ==
  /\ NoFix
  /\ UNCHANGED history
  /\ NoAi
  /\ NoSearch
  /\ now < StartTime + MaxTicks * TickMs
  /\ now' = now + TickMs
  /\ UNCHANGED background
  /\ last' = Step("clockTick", mode, FALSE, Quiet)
  /\ UNCHANGED <<appVars, modalVars, pendingClicks, trackerVars, watchVars,
                 countdownVars, alarmVars, arrivedCount, gate>>

\* a step that ran the watch's success callback, and whether it emitted the
\* arrival event (sendSystemNotification and onArrived)
SampleStep == last'.op = "watchSuccess"
Emitted == arrivedCount' = arrivedCount + 1

\* ------------------------------------------------------------------- Next
\* A journey to a place picked from the list: the settings were saved before
\* it and stay as they are.  Places picked on the map are in NextSession,
\* NextAlarm and NextErrors.
Next ==
  \/ \E p \in Places : selectSuggestion(p)
  \/ activateAlarm
  \/ resetApp
  \/ \E id \in 1..MaxIds, lng \in FixLngs : watchSuccess(id, lng)
  \/ \E id \in 1..MaxIds : watchError(id)
  \/ \E duration \in SnoozeDurations : snooze(duration)
  \/ \E id \in 1..MaxIds : countdownTick(id)
  \/ \E id \in 1..MaxIds : alarmTick(id)
  \/ clockTick

Spec == Init /\ [][Next]_vars

\* LocationTracker under any settings the type AlarmSettings admits
\* (threshold: number), not only those SettingsModal saves
AnySettings ==
  { [DefaultSettings EXCEPT !.alertType = a, !.threshold = v] :
      a \in {"time", "distance"}, v \in {-5, 0, 5} }
SpecAnySettings == InitWith(AnySettings) /\ [][Next]_vars

\* The alarm loop under changes of the sound and vibration settings: the
\* defaults at start, fixes at and far from the destination, no snooze.
AlarmFixLngs == {0, 1834}
NextAlarm ==
  \/ \E p \in Places : selectSuggestion(p)
  \/ \E p \in Places : handleMapClick(p)
  \/ \E p \in Places : mapClickSettled(p)
  \/ activateAlarm
  \/ resetApp
  \/ openSettings
  \/ onClose
  \/ \E ls \in ChannelEdits(localSettings) : setLocalSettings(ls)
  \/ \E soundId \in SoundIds : handleTestSound(soundId)
  \/ handleSave
  \/ \E id \in 1..MaxIds, lng \in AlarmFixLngs : watchSuccess(id, lng)
  \/ \E id \in 1..MaxIds : alarmTick(id)
  \/ clockTick

SpecAlarm == InitWith({DefaultSettings}) /\ [][NextAlarm]_vars

\* A session with both position watches delivering fixes and with map clicks
\* on a second place; the clock stands still.
NextSession ==
  \/ \E p \in Places : selectSuggestion(p)
  \/ \E p \in MapPlaces : handleMapClick(p)
  \/ \E p \in MapPlaces : mapClickSettled(p)
  \/ activateAlarm
  \/ resetApp
  \/ toggleLink
  \/ \E id \in 1..MaxIds, lng \in UserFixLngs : userWatchSuccess(id, lng)
  \/ \E id \in 1..MaxIds, lng \in AlarmFixLngs : watchSuccess(id, lng)
  \/ \E id \in 1..MaxIds : watchError(id)

SpecSession == Init /\ [][NextSession]_vars

\* A host whose position source never yields a valid fix: there is no
\* navigator.geolocation, or the watch reports errors and invalid fixes only.
\* The watch is subscribed with timeout: 5000, so that a source without a fix
\* calls the error callback again and again: the error callback is weakly fair.
InvalidFixLngs == {NaN}
NextErrors ==
  \/ \E p \in Places : selectSuggestion(p)
  \/ \E p \in Places : handleMapClick(p)
  \/ \E p \in Places : mapClickSettled(p)
  \/ activateAlarm
  \/ resetApp
  \/ \E id \in 1..MaxIds, lng \in InvalidFixLngs : watchSuccess(id, lng)
  \/ \E id \in 1..MaxIds : watchError(id)
  \/ clockTick

SpecErrors ==
  /\ InitOn(SavedSettings, BOOLEAN)
  /\ [][NextErrors]_vars
  /\ WF_vars(\E id \in 1..MaxIds : watchError(id))

\* The ETA of the fixes of a journey: distances around the minute boundaries,
\* around the distances of IeeeCeilExcess, and beyond one hour.
EtaFixLngs == {0, 1, 366, 367, 733, 734, 1833, 1834, 5499, 5500, 5501, 10999,
               11000, 11001, 12100, 16500, 16501, 21000, 22001}
NextEta ==
  \/ \E p \in Places : selectSuggestion(p)
  \/ activateAlarm
  \/ resetApp
  \/ \E id \in 1..MaxIds, lng \in EtaFixLngs : watchSuccess(id, lng)

SpecEta == Init /\ [][NextEta]_vars

\* The settings dialog between journeys: from the defaults, any sequence of
\* alert type clicks and slider moves, saved or dismissed, and the detector
\* running on what was saved.
NextSettings ==
  \/ \E p \in Places : selectSuggestion(p)
  \/ activateAlarm
  \/ resetApp
  \/ openSettings
  \/ onClose
  \/ \E ls \in TriggerEdits(localSettings) : setLocalSettings(ls)
  \/ handleSave
  \/ \E id \in 1..MaxIds, lng \in AlarmFixLngs : watchSuccess(id, lng)

SpecSettings == InitWith({DefaultSettings}) /\ [][NextSettings]_vars

\* The alarm under a sound profile the type AlarmSettings admits
\* (alarmSound: string): 'none', which playAlarmSound treats as silence.
SoundSettings ==
  { [DefaultSettings EXCEPT !.alarmSound = a] : a \in {"pulse", "none"} }
NextSound ==
  \/ \E p \in Places : selectSuggestion(p)
  \/ activateAlarm
  \/ resetApp
  \/ openSettings
  \/ onClose
  \/ \E ls \in ChannelEdits(localSettings) : setLocalSettings(ls)
  \/ \E soundId \in SoundIds : handleTestSound(soundId)
  \/ handleSave
  \/ \E id \in 1..MaxIds, lng \in AlarmFixLngs : watchSuccess(id, lng)
  \/ \E id \in 1..MaxIds : alarmTick(id)
  \/ clockTick

SpecSound == InitWith(SoundSettings) /\ [][NextSound]_vars

\* The alert on any host: each of the three channels works, is missing, or
\* throws when called.
NextChannels ==
  \/ \E p \in Places : selectSuggestion(p)
  \/ activateAlarm
  \/ resetApp
  \/ \E id \in 1..MaxIds, lng \in AlarmFixLngs : watchSuccess(id, lng)
  \/ \E id \in 1..MaxIds : alarmTick(id)
  \/ clockTick

SpecChannels == InitHost({DefaultSettings}, {TRUE}, Hosts) /\ [][NextChannels]_vars

\* The trip history: a stored history that is empty or full (10 items, the
\* place A first and the place B last), and activations of A, of B and of a
\* place the history does not hold yet.
HistoryPlaces == MapPlaces \cup { [name |-> "C", lat |-> 0, lng |-> 500] }
StoredNames == <<"A", "D", "E", "F", "G", "H", "I", "J", "K", "B">>
FullHistory ==
  [k \in 1..(HistoryKeep + 1) |->
     [id |-> k,
      destination |-> [name |-> StoredNames[k], lat |-> 0,
                       lng |-> IF k = 1 THEN 0 ELSE IF k = 10 THEN 1834 ELSE 100 * k]]]
StoredHistories == {<<>>, FullHistory}
\* ids of the items whose x button is clicked
DeletedIds == {1, 2, HistoryKeep + 1}
NextHistory ==
  \/ \E p \in HistoryPlaces : selectSuggestion(p)
  \/ activateAlarm
  \/ resetApp
  \/ \E id \in DeletedIds : deleteHistoryItem(id)
  \/ clearHistory

SpecHistory ==
  /\ InitStored({DefaultSettings}, {TRUE}, {WorkingChannels}, StoredHistories)
  /\ [][NextHistory]_vars

\* The AI enrichment: every lookup settles with any outcome of the service,
\* at any time; place A is chosen from the suggestions and place B by a click
\* on the map.
ClickedPlaces == MapPlaces \ Places
NextLookups ==
  \/ \E p \in Places : selectSuggestion(p)
  \/ \E p \in ClickedPlaces : handleMapClick(p)
  \/ \E p \in ClickedPlaces : mapClickSettled(p)
  \/ \E p \in ClickedPlaces : mapClickFailed(p)
  \/ resetApp
  \/ \E l \in lookups, outcome \in DetailsOutcomes : detailsSettled(l, outcome)
  \/ \E l \in lookups, outcome \in TipsOutcomes : tipsSettled(l, outcome)

SpecLookups == Init /\ [][NextLookups]_vars

\* A journey while the AI service is down: every call of it fails, with a
\* rate-limit error or with another error.
FailedOutcomes == DetailsOutcomes \ {"ok"}
NextFallback ==
  \/ \E p \in Places : selectSuggestion(p)
  \/ activateAlarm
  \/ resetApp
  \/ \E l \in lookups, outcome \in FailedOutcomes : detailsSettled(l, outcome)
  \/ \E l \in lookups, outcome \in TipsOutcomes \ {"ok"} : tipsSettled(l, outcome)
  \/ \E id \in 1..MaxIds, lng \in AlarmFixLngs : watchSuccess(id, lng)

SpecFallback == Init /\ [][NextFallback]_vars

\* The distance of fixes and destinations given in whole degrees, off the
\* equator and half the globe apart.
GeoPoints ==
  { <<0, 0>>, <<12 * MetresPerDegree, 0>>,
    <<-12 * MetresPerDegree, 180 * MetresPerDegree>>,
    <<45 * MetresPerDegree, 90 * MetresPerDegree>> }
GeoPlaces ==
  Places
  \cup { [name |-> "P", lat |-> 12 * MetresPerDegree, lng |-> 0],
         [name |-> "Q", lat |-> -12 * MetresPerDegree, lng |-> 180 * MetresPerDegree] }
NextDistance ==
  \/ \E p \in GeoPlaces : selectSuggestion(p)
  \/ activateAlarm
  \/ resetApp
  \/ \E id \in 1..MaxIds, fix \in GeoPoints : watchSuccessAt(id, fix[1], fix[2])

SpecDistance == Init /\ [][NextDistance]_vars

\* the search box in use: queries typed and changed while the timer is
\* pending and while a fetch is in flight, places selected and sessions reset
NextSearch ==
  \/ \E q \in TypedQueries : setSearchQuery(q)
  \/ fetchSuggestions
  \/ \E r \in requests, outcome \in FetchOutcomes : searchSettled(r, outcome)
  \/ \E p \in Places : selectSuggestion(p)
  \/ resetApp

SpecSearch == InitWith({DefaultSettings}) /\ [][NextSearch]_vars

\* Mode and destination under every way of choosing and ending a journey:
\* places picked from the list and on the map, the geocoder answering or
\* failing, activation, arrival and reset.
NextModes ==
  \/ \E p \in Places : selectSuggestion(p)
  \/ \E p \in ClickedPlaces : handleMapClick(p)
  \/ \E p \in ClickedPlaces : mapClickSettled(p)
  \/ \E p \in ClickedPlaces : mapClickFailed(p)
  \/ activateAlarm
  \/ resetApp
  \/ \E id \in 1..MaxIds, lng \in AlarmFixLngs : watchSuccess(id, lng)

SpecModes == InitWith({DefaultSettings}) /\ [][NextModes]_vars

\* Calls of retryWithBackoff with every count and delay of RetryCounts and
\* RetryDelays, and every sequence of outcomes of fn
NextRetry ==
  \/ \E maxRetries \in RetryCounts, initialDelay \in RetryDelays :
       retryWithBackoff(maxRetries, initialDelay)
  \/ \E outcome \in FnOutcomes : fnSettled(outcome)
  \/ retryDelayElapsed

SpecRetry == InitWith({DefaultSettings}) /\ [][NextRetry]_vars

\* The promise of fn settles and the timer of setTimeout fires: both are
\* steps of the host's event loop, taken once they are enabled.
SpecRetryFair ==
  /\ SpecRetry
  /\ WF_vars(\E outcome \in FnOutcomes : fnSettled(outcome))
  /\ WF_vars(retryDelayElapsed)

\* The cache of the AI service over repeated journeys to one place: every
\* lookup answers, fails, or answers without text.
NextCache ==
  \/ \E p \in Places : selectSuggestion(p)
  \/ resetApp
  \/ \E l \in lookups, outcome \in DetailsOutcomes : detailsSettled(l, outcome)
  \/ \E l \in lookups, outcome \in TipsTexts : tipsSettled(l, outcome)

SpecCache == InitWith({DefaultSettings}) /\ [][NextCache]_vars

\* The background service over journeys that are started and ended while its
\* awaits are pending, on hosts that prompt for the notification permission
\* and on hosts that do not.
BackgroundHosts ==
  {WorkingChannels, [WorkingChannels EXCEPT !.notification = "unsupported"]}
NextBackground ==
  \/ \E p \in Places : selectSuggestion(p)
  \/ activateAlarm
  \/ resetApp
  \/ permissionSettled
  \/ \E granted \in BOOLEAN : wakeLockSettled(granted)
  \/ releaseSettled

SpecBackground ==
  InitHost({DefaultSettings}, {TRUE}, BackgroundHosts) /\ [][NextBackground]_vars

\* ----------------------------------------------------------------- claims
\* C1: within one tracking session the arrival event (onArrived with its
\* system notification) is emitted at most once.
C1_AtMostOncePerSession == arrivedCount <= 1

\* C2: a position sample processed while now < snoozeUntil emits no arrival
\* event and leaves mode unchanged, even if it meets the trigger condition.
C2_SnoozeMasksTrigger ==
  [][(SampleStep /\ now < snoozeUntil) => (~Emitted /\ mode' = mode /\ ~last'.fired)]_vars
C2_Witness ==
  /\ last.op = "watchSuccess" /\ now < snoozeUntil /\ mode = "TRACKING"
  /\ (\/ (settings.alertType = "distance" /\ distance # NaN /\ distance <= settings.threshold)
      \/ (settings.alertType = "time" /\ eta # NaN /\ eta <= settings.threshold))

\* C3: mode becomes ALARM when, and only when, a valid position sample that
\* meets the trigger condition is processed while mode is TRACKING and the
\* session is not snoozed; ALARM is never entered from IDLE or SEARCHING.
TriggerMet(s, dist, e) ==
  /\ dist # NaN
  /\ \/ (s.alertType = "distance" /\ dist <= s.threshold)
     \/ (s.alertType = "time" /\ e <= s.threshold)
C3_AlarmOnlyFromTriggeringSample ==
  [][ (mode # "ALARM" /\ mode' = "ALARM")
        <=> (/\ SampleStep /\ mode = "TRACKING" /\ ~(now < snoozeUntil)
             /\ TriggerMet(settings, distance', eta')) ]_vars
C3_Witness ==
  /\ mode = "ALARM" /\ last.op = "watchSuccess" /\ last.from = "TRACKING" /\ last.fired

\* C4: with alertType = distance and a positive threshold a non-snoozed sample
\* fires exactly when distanceMeters <= threshold (boundary inclusive).
C4_DistanceBoundaryInclusive ==
  [][ (/\ SampleStep /\ settings.alertType = "distance" /\ settings.threshold > 0
       /\ ~(now < snoozeUntil))
        => (Emitted <=> (distance' # NaN /\ distance' <= settings.threshold)) ]_vars
C4_Witness ==
  /\ last.op = "watchSuccess" /\ last.fired /\ last.from = "TRACKING"
  /\ settings.alertType = "distance" /\ settings.threshold > 0
  /\ distance = settings.threshold

\* C5: with alertType = time and a positive threshold a non-snoozed sample fires
\* exactly when etaMinutes <= threshold, etaMinutes being the ETA of the sample's
\* distance at 22 km/h; the distance comparison plays no part.
C5_TimeModeUsesEta ==
  [][ (/\ SampleStep /\ settings.alertType = "time" /\ settings.threshold > 0
       /\ ~(now < snoozeUntil))
        => (/\ eta' = calculateETA(distance', 22)
            /\ Emitted <=> (eta' # NaN /\ eta' <= settings.threshold)) ]_vars
C5_Witness ==
  /\ last.op = "watchSuccess" /\ last.fired /\ last.from = "TRACKING"
  /\ settings.alertType = "time" /\ settings.threshold > 0
  /\ eta <= settings.threshold /\ distance > settings.threshold

\* C6: with settings.threshold 0 or negative no position sample ever fires the
\* arrival event, in either alert mode, also exactly at the destination.
C6_NonPositiveThresholdNeverFires == settings.threshold <= 0 => arrivedCount = 0

\* C7: a sample that met the trigger condition and was suppressed while
\* now < snoozeUntil fires when the identical sample is processed at any
\* now >= snoozeUntil.
C7_FiresOnceSnoozeExpired ==
  [][ (/\ gate = "gated" /\ SampleStep /\ distance' = distance /\ now >= snoozeUntil)
        => (Emitted /\ mode' = "ALARM") ]_vars
C7_Witness ==
  /\ gate = "released" /\ last.op = "watchSuccess" /\ last.from = "TRACKING"
  /\ last.fired /\ mode = "ALARM" /\ snoozeUntil > 0 /\ now >= snoozeUntil

\* C8: snooze expiry is passive: the clock passing snoozeUntil and the ticks of
\* the countdown timer never emit the arrival event or change mode; the
\* event is emitted only by a processed position sample.
C8_ExpiryIsPassive ==
  [][ /\ (last'.op \in {"clockTick", "countdownTick"}
            => (arrivedCount' = arrivedCount /\ mode' = mode))
      /\ (Emitted => SampleStep) ]_vars
C8_Witness ==
  /\ last.op = "countdownTick" /\ secondsLeft = 0 /\ snoozeUntil > 0
  /\ now >= snoozeUntil /\ gate = "gated" /\ mode = "TRACKING"


\* C9: on every transition of mode into ALARM the alert (sound if enabled,
\* vibration if enabled) is triggered immediately, and again on every tick of
\* a 1.5 s repeat timer for as long as mode remains ALARM.
RepeatTimerRuns ==
  \E id \in DOMAIN alarmTimers :
    /\ alarmTimers[id].due <= now + 1500
    /\ alarmTimers[id].enableSound = settings.enableSound
    /\ alarmTimers[id].enableVibration = settings.enableVibration
C9_AlertOnEntryAndEveryTick ==
  [][ /\ (mode # "ALARM" /\ mode' = "ALARM")
          => (/\ last'.play = settings'.enableSound
              /\ last'.haptic = settings'.enableVibration
              /\ \E id \in DOMAIN alarmTimers' : alarmTimers'[id].due = now + 1500)
      /\ (last'.op = "alarmTick")
          => (/\ mode = "ALARM"
              /\ last'.play = settings.enableSound
              /\ last'.haptic = settings.enableVibration)
      /\ (mode' = "ALARM" => RepeatTimerRuns') ]_vars
C9_Witness ==
  /\ last.op = "alarmTick" /\ mode = "ALARM"
  /\ ~settings.enableSound /\ ~last.play /\ settings.enableVibration /\ last.haptic

\* C10: at most one alarm-repeat timer is active, and none while mode is not
\* ALARM: dismissing, cancelling and changing the sound or vibration settings
\* during ALARM leave no orphaned repeat timer.
C10_SingleAlarmTimer ==
  /\ Cardinality(DOMAIN alarmTimers) <= 1
  /\ (mode # "ALARM" => alarmTimers = NoEntries)
C10_Witness ==
  /\ last.op = "resetApp" /\ last.from = "ALARM" /\ mode = "IDLE"
  /\ settings # DefaultSettings /\ alarmTimers = NoEntries

\* C11: at every moment of a tracking session at most one position-watch
\* subscription is active, so that no sample is processed by two
\* subscriptions: a new watch is subscribed only after the previous one has
\* been cancelled.
ActiveWatches == Cardinality(DOMAIN watches) + Cardinality(DOMAIN userWatches)
C11_SingleWatchSubscription ==
  TrackerMounted(mode, destination) => ActiveWatches <= 1

\* C12: once the session has been reset or the tracker torn down, the
\* tracker's position watch is cancelled, and nothing emits the arrival event
\* or moves mode to ALARM until a destination has been confirmed again.
C12_NoWatchAfterTeardown ==
  [][ /\ (~TrackerMounted(mode', destination') => (watches' = NoEntries /\ watchId' = 0))
      /\ ((Emitted \/ (mode # "ALARM" /\ mode' = "ALARM"))
            => TrackerMounted(mode, destination)) ]_vars
C12_Witness ==
  /\ last.op = "resetApp" /\ last.from = "TRACKING" /\ mode = "IDLE"
  /\ watches = NoEntries /\ destination = NullLocation

\* C13: while mode is TRACKING or ALARM the destination does not change and
\* mode does not go back to SEARCHING, except by cancelling or dismissing the
\* session; a map click whose request completes during tracking changes
\* neither.
C13_DestinationImmutable ==
  [][ (mode \in {"TRACKING", "ALARM"} /\ last'.op # "resetApp")
        => (destination' = destination /\ mode' \in {"TRACKING", "ALARM"}) ]_vars

\* C14: a geolocation error records an error message and nothing else: no
\* arrival event, no change of mode, distance or ETA, and the watch stays
\* subscribed; the next valid sample is evaluated as usual and fires if it
\* meets the trigger condition.
C14_ErrorOnlyRecordsMessage ==
  [][ /\ (last'.op = "watchError"
            => /\ error' # ""
               /\ ~Emitted /\ ~last'.fired
               /\ UNCHANGED <<mode, destination, settings, distance, eta, snoozeUntil,
                              secondsLeft, watches, watchId, countdownTimers,
                              alarmTimers>>)
      /\ ((/\ SampleStep /\ error # "" /\ mode = "TRACKING" /\ ~(now < snoozeUntil)
           /\ TriggerMet(settings, distance', eta'))
            => (Emitted /\ mode' = "ALARM")) ]_vars
C14_Witness ==
  /\ error = "geo" /\ last.op = "watchSuccess" /\ last.fired
  /\ last.from = "TRACKING" /\ mode = "ALARM"

\* C15: a position sample with invalid coordinates (its distance is NaN) never
\* emits the arrival event, in either alert mode and whatever the threshold.
C15_InvalidSampleNeverFires ==
  [][ (SampleStep /\ sample' = NaN)
        => (/\ distance' = NaN
            /\ ~Emitted /\ ~last'.fired /\ mode' = mode) ]_vars
C15_Witness ==
  /\ last.op = "watchSuccess" /\ sample = NaN /\ distance = NaN /\ eta = NaN
  /\ mode = "TRACKING" /\ settings.alertType = "distance" /\ arrivedCount = 0

\* C16: in a tracking session in which no valid position sample arrives (no
\* geolocation on the host, or a source that only reports errors) the error
\* indicator eventually becomes set, and once set it stays set for the rest
\* of the session.
C16_ErrorIndicatorPersists ==
  /\ [](TrackerMounted(mode, destination)
          => <>(error # "" \/ ~TrackerMounted(mode, destination)))
  /\ [][ (/\ error # "" /\ TrackerMounted(mode, destination)
          /\ TrackerMounted(mode', destination'))
           => error' = error ]_vars
C16_Witness ==
  /\ ~geolocation /\ mode = "TRACKING" /\ error = "geoError"
  /\ watches = NoEntries /\ distance = Null /\ now > StartTime

\* C17: every valid position sample sets the displayed distance and ETA to the
\* values computed from that sample, whatever the trigger outcome: also under
\* snooze, when the condition is not met, and after the alarm has fired.
C17_SampleUpdatesDisplay ==
  [][ (SampleStep /\ sample' # NaN)
        => /\ distance' = Abs(sample' - destination.lng)
           /\ eta' >= 0
           /\ eta' * 1100 >= 3 * distance'
           /\ (eta' > 0 => (eta' - 1) * 1100 < 3 * distance') ]_vars
C17_Witness ==
  /\ last.op = "watchSuccess" /\ last.from = "ALARM" /\ ~last.fired
  /\ now < snoozeUntil /\ sample = 499 /\ distance = 499 /\ eta = 2

C20_SingleCountdownTimer ==
  [][ /\ Cardinality(DOMAIN countdownTimers') <= 1
      /\ (~TrackerMounted(mode', destination') => countdownTimers' = NoEntries)
      /\ ((last'.op = "countdownTick" /\ secondsLeft' = 0)
            => countdownTimers' = NoEntries)
      /\ ((snoozeUntil' # snoozeUntil /\ snoozeUntil' > now)
            => DOMAIN countdownTimers' = {countdownInterval'}) ]_vars
C20_Witness ==
  /\ last.op = "snooze" /\ secondsLeft > 0 /\ now < StartTime + 1500
  /\ Cardinality(DOMAIN countdownTimers) = 1
  /\ \E id \in DOMAIN countdownTimers : countdownTimers[id].due = now + CountdownMs

\* C21: calculateETA(d, v) is 0 for d <= 0 and otherwise
\* ceil(d / (v * 1000 / 3600) / 60), v being 22 km/h when omitted: for a
\* whole-metre distance at the default speed it is the least integer m with
\* 1100 * m >= 3 * d.
C21_EtaIsCeiling ==
  [][ (SampleStep /\ sample' # NaN)
        => /\ eta' >= 0
           /\ 1100 * eta' >= 3 * distance'
           /\ (eta' > 0 => 1100 * (eta' - 1) < 3 * distance') ]_vars

\* C22: for a fixed speed the ETA is 0 at distance 0 and monotonically
\* non-decreasing in distance: d1 <= d2 implies eta(d1) <= eta(d2).
C22_EtaMonotone ==
  [][ (SampleStep /\ sample' # NaN)
        => /\ (distance' = 0 => eta' = 0)
           /\ ((distance \notin {Null, NaN} /\ distance <= distance') => eta <= eta')
           /\ ((distance \notin {Null, NaN} /\ distance' <= distance) => eta' <= eta) ]_vars
C22_Witness ==
  /\ last.op = "watchSuccess" /\ last.from = "TRACKING" /\ ~last.fired
  /\ distance = 5501 /\ eta = 16

\* C27: the settings the detector consumes always have threshold > 0, after
\* any sequence of edits and saves from the defaults; so has the dialog's copy.
C27_ThresholdPositive == settings.threshold > 0 /\ localSettings.threshold > 0
\* the detector consumed a sample under a saved threshold of 1, the least the
\* dialog can produce, kept across a switch of the alert type
C27_Witness ==
  /\ last.op = "watchSuccess"
  /\ settings.alertType = "distance" /\ settings.threshold = 1

\* C28: the saved threshold lies in 100..2000 when the alert type is distance
\* and in 1..15 when it is time.
C28_SavedThresholdInRange ==
  /\ settings.alertType = "distance" => settings.threshold \in 100..2000
  /\ settings.alertType = "time" => settings.threshold \in 1..15

\* C23: no alarm sound is produced while the sound profile is 'none' or while
\* sound is disabled: not by the first alert, not by a repeat, and not by the
\* preview of the settings dialog (judged by the dialog's copy).
C23_SilentWhenNoneOrDisabled ==
  [][ /\ (last'.audible /\ last'.op # "handleTestSound")
          => (settings'.enableSound /\ settings'.alarmSound # "none")
      /\ (last'.audible /\ last'.op = "handleTestSound")
          => (localSettings.enableSound /\ localSettings'.alarmSound # "none") ]_vars
\* a repeat of the alarm under the profile 'none': playAlarmSound is called,
\* stays silent, and the vibration goes on
C23_Witness ==
  /\ last.op = "alarmTick" /\ mode = "ALARM"
  /\ settings.enableSound /\ settings.alarmSound = "none"
  /\ last.play /\ ~last.audible /\ last.vibrated

\* C24: the failure of an alert channel is never surfaced: a triggering sample
\* still turns mode to ALARM, each alert still calls every enabled channel and
\* the working ones still act, no exception leaves the alert, no error is
\* recorded, and the repeat timer keeps running while mode is ALARM.
C24_ChannelFailureNotSurfaced ==
  [][ /\ (/\ SampleStep /\ mode = "TRACKING" /\ ~(now < snoozeUntil)
           /\ TriggerMet(settings, distance', eta'))
          => (mode' = "ALARM" /\ last'.fired /\ Emitted)
      /\ ((mode # "ALARM" /\ mode' = "ALARM") \/ last'.op = "alarmTick")
          => (/\ last'.play = settings'.enableSound
              /\ last'.haptic = settings'.enableVibration
              /\ last'.audible = (last'.play /\ settings'.alarmSound # "none"
                                   /\ channels.audio = "ok")
              /\ last'.vibrated = (last'.haptic /\ channels.vibrate = "ok")
              /\ ~last'.threw
              /\ error' = error)
      /\ (mode' = "ALARM" => RepeatTimerRuns') ]_vars
\* a repeat of the alarm on a host whose audio throws and whose notifications
\* are not permitted: the vibration still acts
C24_Witness ==
  /\ last.op = "alarmTick" /\ mode = "ALARM"
  /\ channels.audio = "throws" /\ channels.notification = "unsupported"
  /\ channels.vibrate = "ok"
  /\ last.play /\ ~last.audible /\ last.haptic /\ last.vibrated /\ ~last.threw

\* C29: the trip history never holds more than 10 entries, and after an
\* activation the activated destination is its first entry.
C29_HistoryAtMostTen ==
  /\ Len(history) <= 10
  /\ (last.op = "activateAlarm" => (Len(history) > 0
                                     /\ history[1].destination = destination))
\* a place the full history did not hold was activated: it is first, the list
\* is full and its former last entry is gone
C29_Witness ==
  /\ last.op = "activateAlarm" /\ Len(history) = 10
  /\ history[1].destination.name = "C" /\ history[2].destination.name = "A"
  /\ history[10].destination.name = "K"

\* C30: no two entries of the history share a destination name, and
\* activating a destination the history holds moves its entry to the front:
\* the other entries keep their order, none is added.
HistoryNames(h) == [k \in 1..Len(h) |-> h[k].destination.name]
C30_HistoryDeduplicated ==
  [][ /\ \A i, j \in 1..Len(history') :
           history'[i].destination.name = history'[j].destination.name => i = j
      /\ (/\ last'.op = "activateAlarm"
          /\ \E k \in 1..Len(history) : history[k].destination.name = destination.name)
          => /\ Len(history') = Len(history)
             /\ HistoryNames(history') =
                  <<destination.name>> \o
                  SelectSeq(HistoryNames(history), LAMBDA n : n # destination.name) ]_vars
\* the last entry of a full history was activated again: it is first, once
C30_Witness ==
  /\ last.op = "activateAlarm" /\ Len(history) = 10
  /\ history[1].destination.name = "B" /\ history[2].destination.name = "A"
  /\ history[10].destination.name = "K"

\* C25: a lookup superseded by the selection of another destination or by a
\* reset never writes its result into the state: a settling lookup writes only
\* for the current destination, the details shown belong to the current
\* destination, and details and tips are empty after a reset.
C25_SupersededLookupNeverWrites ==
  [][ /\ (settled' # NoLookup /\ settled'.name # destination.name)
          => UNCHANGED <<aiDetails, travelTips>>
      /\ (aiDetails' # NoDetails => aiDetails'.query = destination'.name)
      /\ (travelTips'.from = "service" => travelTips'.query = destination'.name)
      /\ (last'.op = "resetApp" => (aiDetails' = NoDetails /\ travelTips' = NoTips)) ]_vars

\* C26: a failed lookup yields the local fallback and leaves the tracking flow
\* alone: no lookup is tried more than MaxRetries times, a failure that ends
\* the details call stores the fallback details, a failure of the tips call
\* stores the fallback tips and clears the loading flag, and mode, destination,
\* settings, session, snooze and the watch are as before.
C26_FailureYieldsFallback ==
  [][ /\ \A l \in lookups' : l.attempt <= MaxRetries
      /\ (settled'.stage = "details" /\ settled'.outcome = "error")
          => aiDetails' = FallbackDetails(settled'.name)
      /\ (/\ settled'.stage = "details" /\ settled'.outcome = "rateLimit"
          /\ \E l \in lookups \ lookups' : l.name = settled'.name /\ l.attempt = MaxRetries)
          => aiDetails' = FallbackDetails(settled'.name)
      /\ (settled'.stage = "tips" /\ settled'.outcome = "error")
          => travelTips' = FallbackTips
      /\ (settled'.stage = "tips" => ~loading')
      /\ (settled'.outcome \in {"rateLimit", "error"})
          => (/\ mode' = mode /\ destination' = destination /\ settings' = settings
              /\ arrivedCount' = arrivedCount /\ snoozeUntil' = snoozeUntil
              /\ watches' = watches /\ error' = error) ]_vars
\* during tracking the details call has failed for good and then the tips call
\* has failed: both fallbacks are stored and loading is cleared
C26_Witness ==
  /\ mode = "TRACKING" /\ last.op = "tipsSettled"
  /\ settled = [name |-> destination.name, stage |-> "tips", outcome |-> "error"]
  /\ aiDetails = FallbackDetails(destination.name) /\ travelTips = FallbackTips
  /\ ~loading /\ lookups = {}

\* C31: calculateDistance(A, B) == calculateDistance(B, A) for all valid
\* coordinate pairs, and calculateDistance(A, A) is 0: the distance the
\* tracker computes from the fix to the destination equals, as JavaScript
\* compares numbers, the distance from the destination to the fix.
JsEquals(a, b) == a # NaN /\ b # NaN /\ a = b
C31_DistanceSymmetric ==
  [][ SampleStep
        => /\ JsEquals(distance',
                       calculateDistance(destination.lat, destination.lng,
                                         sampleLat', sample'))
           /\ (<<sampleLat', sample'>> = <<destination.lat, destination.lng>>
                 => distance' = 0) ]_vars

\* ------------------------------------------------------------------- C32
\* C32: suggestions never come from a superseded query.  A step that changes
\* the query leaves exactly one pending debounce timer, the one of the new
\* query, and every fetch still in flight aborted; a fetch that is not aborted
\* is the one of the current query; a step that settles an aborted fetch,
\* whatever its outcome, changes none of the suggestions, the search error
\* and the searching flag; and the suggestions a step puts on display are the
\* answer to the query in the box.
C32_SupersededSearchNeverWrites ==
  [][ /\ searchQuery' # searchQuery
         => /\ searchTimer' = [query |-> searchQuery']
            /\ \A r \in requests' : r.aborted
      /\ \A r \in requests' : ~r.aborted => r.query = searchQuery'
      /\ searchTimer' # NoTimer => searchTimer'.query = searchQuery'
      /\ answered'.aborted
         => UNCHANGED <<suggestions, searchError, isSearching>>
      /\ (suggestions' # suggestions /\ suggestions'.found)
         => suggestions' = SuggestionsFor(searchQuery') ]_vars

\* the answer to a superseded query arrived while the dropdown showed the
\* answer to the query in the box
C32_Witness ==
  /\ answered.aborted /\ answered.outcome = "ok"
  /\ answered.query # searchQuery
  /\ suggestions = SuggestionsFor(searchQuery)

\* ------------------------------------------------------------------- C34
\* C34: once mode is ALARM it stays ALARM until the user dismisses or cancels:
\* a step that is not resetApp (a position fix inside or outside the
\* threshold, a geolocation error, a link toggle, a map click or the
\* completion of its lookup) leaves mode at ALARM.
C34_AlarmUntilDismissed ==
  [][ (mode = "ALARM" /\ last'.op # "resetApp") => mode' = "ALARM" ]_vars

\* ------------------------------------------------------------------- C35
\* C35: mode and destination are consistent in every reachable state: a
\* destination is set whenever mode is SEARCHING, TRACKING or ALARM, and
\* there is none whenever mode is IDLE, which after the first selection is
\* reached through resetApp only.
C35_ModeMatchesDestination ==
  /\ mode \in {"SEARCHING", "TRACKING", "ALARM"} => destination # NullLocation
  /\ mode = "IDLE" => destination = NullLocation
  /\ (last.op = "resetApp" => mode = "IDLE")

\* a journey was ended while a map click's lookup was in flight, and the
\* lookup's failure then selected the clicked point
C35_Witness ==
  /\ last.op = "mapClickFailed" /\ last.from = "IDLE"
  /\ mode = "SEARCHING" /\ destination.name = "tapMap"
  /\ history # <<>>

\* ------------------------------------------------------------------- C36
\* C36: the snoozed indicator agrees with the detector's gate: while the
\* tracker is mounted, secondsLeft > 0 exactly when now < snoozeUntil.
C36_IndicatorMatchesGate ==
  TrackerMounted(mode, destination)
    => ((secondsLeft > 0) <=> isGated(now, snoozeUntil))

\* ------------------------------------------------------------------- C37
\* C37: retryWithBackoff terminates and does what its contract says.  fn is
\* called at most maxRetries times; the first result of fn is returned at
\* once; a retry follows a rate-limit error only, after a delay that starts at
\* initialDelay and doubles from one attempt to the next; any other error is
\* thrown on by the attempt that met it; the error of the final attempt is
\* thrown on; and every call that has begun returns or throws.
C37_RetryContract ==
  /\ [][ /\ run'.calls <= run'.maxRetries
         /\ Len(run'.waited) = run'.i /\ run'.i < Max(1, run'.maxRetries)
         /\ \A k \in 1..Len(run'.waited) :
              run'.waited[k] = run'.waited[1] * 2 ^ (k - 1)
         /\ last'.op = "fnSettled"
            => /\ run'.calls = run.calls
               /\ run'.at \in {"returned", "threw", "waiting"}
               /\ run'.at = "returned"
                  => run'.with = "result" /\ run'.from = run.calls
               /\ run'.at = "threw"
                  => /\ run'.with = run'.caught /\ run'.from = run.calls
                     /\ run'.caught = "error" \/ run.calls = run.maxRetries
               /\ run'.at = "waiting"
                  => run'.caught = "rateLimit" /\ run.calls < run.maxRetries
         /\ last'.op = "retryDelayElapsed"
            => /\ run'.at = "calling" /\ run'.calls = run.calls + 1
               /\ run'.waited = Append(run.waited, run.delay)
               /\ run'.delay = 2 * run.delay
         /\ last'.op = "retryWithBackoff"
            => /\ run'.waited = <<>>
               /\ run'.delay \in RetryDelays
               /\ IF run'.maxRetries > 0
                  THEN run'.at = "calling" /\ run'.calls = 1
                  ELSE run'.at = "threw" /\ run'.calls = 0 ]_vars
  /\ (run.at \in {"calling", "waiting"}) ~> (run.at \in {"returned", "threw"})

\* the third attempt of a call with maxRetries of 3 met a rate-limit error,
\* after two retries that waited 1500 and 3000 ms
C37_Witness ==
  /\ run.maxRetries = 3 /\ run.calls = 3
  /\ run.waited = <<1500, 3000>>
  /\ run.at = "threw" /\ run.with = "rateLimit" /\ run.from = 3

\* ------------------------------------------------------------------- C38
\* C38: a result of the service is stored under its key, a failure stores
\* nothing, and a call whose key is stored starts no lookup, while a call
\* whose key is not stored starts one.  getDestinationDetails is called by
\* selectSuggestion, getTravelTips once the details are there: at once when
\* they come from the cache, or when their lookup answers.
C38_CacheServesStoredResults ==
  [][ /\ settled'.outcome \in {"ok", "empty"}
         => Stored(aiCache', settled'.stage, settled'.name)
      /\ settled'.outcome \in {"error", "rateLimit"} => aiCache' = aiCache
      /\ last'.op = "selectSuggestion"
         => IF Stored(aiCache, "details", destination'.name)
            THEN /\ \A l \in lookups' \ lookups : l.stage # "details"
                 /\ Stored(aiCache, "tips", destination'.name)
                    => lookups' = lookups
            ELSE \E l \in lookups' : l.stage = "details" /\ l.name = destination'.name
      /\ (settled'.stage = "details" /\ settled'.outcome = "ok")
         => IF Stored(aiCache, "tips", settled'.name)
            THEN \A l \in lookups' \ lookups : l.stage # "tips"
            ELSE \E l \in lookups' : l.stage = "tips" /\ l.name = settled'.name ]_vars

\* ------------------------------------------------------------------- C33
\* C33: after the tracker is torn down, no keep-alive interval and no screen
\* wake lock that the background service started is active, whatever the
\* order of stopBackgroundService and the awaits of initBackgroundService.
C33_NothingActiveAfterTeardown ==
  ~TrackerMounted(mode, destination)
    => (background.keepAlives = NoEntries /\ background.locks = NoEntries)

====
